---- MODULE Spec2Model ----
(***************************************************************************)
(* Model of the ADC hardware-trigger DMA example (AdcApp.c): one software  *)
(* thread (main -> Adc_appInit -> Adc_appTest -> Adc_appDeInit) stepping   *)
(* statement by statement, interleaved with the hardware it programs: the  *)
(* EPWM trigger generator, the ADC, the EDMA channel writing the result    *)
(* buffer in main memory, the completion interrupt, and the data cache     *)
(* between the CPU and main memory.                                        *)
(***************************************************************************)
EXTENDS Integers, Sequences, FiniteSets, TLC

(* ------------------------------------------------------------------ *)
(* Program constants                                                   *)
(* ------------------------------------------------------------------ *)
ADC_APP_NUM_CHANNEL == 1
ADC_APP_DEFAULT_STREAM_SAMPLES == 1
ADC_APP_READ_BUF_SIZE_WORD == ADC_APP_DEFAULT_STREAM_SAMPLES * ADC_APP_NUM_CHANNEL
ADC_APP_LOOPCNT == 10
ADC_APP_DMA_CHANNEL == 0
ADC_APP_GROUP_ID == 0
ADC_APP_LOG_SIZE == 10

\* EPWM time base: 200 MHz / 8 = 25000 counts per millisecond, period register, compare A
EPWM_TBCLK_PER_MS == 25000
EPWM_TBPRD == 25000
EPWM_CMPA == 12500
\* AppUtils_delay(100): milliseconds between two poll ticks
APP_DELAY_MS == 100

(* ------------------------------------------------------------------ *)
(* Bounds of the model                                                 *)
(* ------------------------------------------------------------------ *)
\* number of ADC groups (ADC_MAX_GROUP of the generated Adc_Cfg.h)
ADC_MAX_GROUP == 2
\* capture iterations explored (caps ADC_APP_LOOPCNT)
MaxLoop == 2
\* poll ticks explored per iteration (caps ADC_APP_LOG_SIZE)
MaxLog == 2
\* EPWM trigger pulses explored in a run
MaxTriggers == 2
\* distinct non-zero conversion results
MaxSample == 1
\* DMA channels of the controller, each with its PaRAM slot
MaxDmaCh == 2

Min(a, b) == IF a < b THEN a ELSE b
LoopCnt == Min(ADC_APP_LOOPCNT, MaxLoop)
LogSize == Min(ADC_APP_LOG_SIZE, MaxLog)

Groups == 0 .. (ADC_MAX_GROUP - 1)
\* gAdcAppDmaBuffer[ADC_MAX_GROUP][ADC_APP_READ_BUF_SIZE_WORD], as word offsets
BufWords == 0 .. (ADC_MAX_GROUP * ADC_APP_READ_BUF_SIZE_WORD - 1)
BufIndex(grp, i) == grp * ADC_APP_READ_BUF_SIZE_WORD + i
SampleValues == 1 .. MaxSample
ZeroBuf == [w \in BufWords |-> 0]
\* no engine write recorded
NoEngWr == [w \in BufWords |-> -1]

\* the model's clock: one tick is the time the EPWM counter takes to count to compare A
CountsPerTick == EPWM_CMPA
\* up-count mode: the counter counts 0 .. TBPRD, then starts again at 0
PeriodTicks == (EPWM_TBPRD + 1) \div CountsPerTick
CmpaTick == EPWM_CMPA \div CountsPerTick
DelayTicks == (APP_DELAY_MS * EPWM_TBCLK_PER_MS) \div CountsPerTick

\* bytes of one sample (Adc_ValueGroupType, moved as uint16)
SampleBytes == 2

E_OK == 0
E_NOT_OK == 1

APP_UTILS_TEST_STATUS_PASS == "PASS"
APP_UTILS_TEST_STATUS_FAIL == "FAIL"

VARIABLES
    pc,                       \* position of the software thread
    grpIdx,                   \* loop variable of the per-group loops
    loopcnt,                  \* loop variable of the capture loop
    logIndex,                 \* loop variable of the poll loop
    testPassed,               \* local verdict of Adc_appTest
    gTestPassed,              \* static verdict flag
    gAdcAppLog,               \* application log
    testResultLog,            \* statuses passed to AppUtils_logTestResult
    errTrace,                 \* error lines printed (GT_ERR traces)
    gAdcAppDmaCallbackCount,  \* DMA callback counter
    cbkTmp,                   \* value loaded by a callback in progress, -1 outside the callback
    nCallbackCalls,           \* invocations of the callback so far
    swTrace,                  \* operations executed by software in the current iteration
    dmaBufMem,                \* gAdcAppDmaBuffer as held in main memory
    cacheValid,               \* the buffer's cache lines hold a copy
    cacheDirty,               \* the copy has been written and not written back
    cacheData,                \* the cached copy
    tbCtrMode,                \* EPWM time-base counter mode
    tbClkSync,                \* EPWM time-base clock enable
    socAEn,                   \* EPWM SOC-A trigger output enable
    socBEn,                   \* EPWM SOC-B trigger output enable
    nTrig,                    \* trigger pulses so far
    tbCtr,                    \* EPWM time-base counter, in ticks of the model's clock
    waited,                   \* ticks spent in the AppUtils_delay in progress
    runTicks,                 \* ticks for which the counter has run since it was last started
    cntAtStart,               \* callback counter at the first tick of the current run
    adcHwTrigEn,              \* ADC hardware triggering of group 0
    adcNotif,                 \* groups with notification enabled
    adcStatus,                \* driver status per group
    adcResultSet,             \* groups with a result buffer installed
    adcBusy,                  \* a conversion is in progress
    adcResultReg,             \* ADC result register
    dmaInit,                  \* DMA driver initialised
    dmaParam,                 \* descriptor in the PaRAM slot of channel 0
    dmaChEnabled,             \* channel 0 responds to transfer-request events
    dmaEvt,                   \* a transfer request is latched
    dmaXfer,                  \* transfer in flight
    irqPending,               \* completion interrupt pending
    irqRegistered,            \* completion ISR registered with the VIM
    cbkRegistered,            \* application callback registered
    engWr,                    \* per word: what the engine wrote over the zero pattern in memory, -1 if nothing
    dmaLastDest,              \* destination of the slot's latest completed transfer, -1 if none
    dmaArgs,                  \* arguments length and dmaCh of Adc_appDmaConfigure
    dmaCfgErr,                \* the latest Cdd_Dma_ParamSet raised a configuration error
    dmaOther,                 \* slots of the other channels: descriptor and event enable
    mainRet                   \* value main has returned, -1 before it returns

\* mcan_transceiver.c: the thread that runs mcanEnableTransceiver, and the I2C driver
VARIABLES
    tpc,                      \* position of the thread in mcan_transceiver.c
    nCalls,                   \* calls of TCA6424_setOutput / TCA6424_config entered so far
    callNo,                   \* which call of TCA6424_Transceiver is running, 0 for a direct call
    fn,                       \* function being executed: "setOutput" or "config"
    ioIndex,                  \* argument ioIndex of the call
    ioArg,                    \* argument state (setOutput) or mode (config) of the call
    status,                   \* local status of the call
    callLog,                  \* function and arguments of the calls entered so far
    retVals,                  \* values returned by the calls so far
    xcvrStatus,               \* local status of TCA6424_Transceiver
    bufSetup,                 \* value I2c_Buffer_Setup returned, -1 before it has
    rxDoneIomux,              \* read-completion flag
    txBufferIomux,            \* transmission buffer, bytes 0 and 1
    rxBufferIomux,            \* reception buffer, bytes 0 and 1
    seqResult,                \* Cdd_I2c_GetSequenceResult of sequences 0, 1, 2
    i2cTrace,                 \* calls, returns, sequence starts and ends, in order
    printed,                  \* lines given to AppUtils_printf
    spin,                     \* parity of the failed tests of the wait loop being executed
    rxDoneCall,               \* the call whose read callback raised rxDoneIomux from FALSE, 0 if none
    devWrite                  \* register and value of the latest write the expander received

xcvrVars == << tpc, nCalls, callNo, fn, ioIndex, ioArg, status, callLog, retVals, xcvrStatus, bufSetup,
               rxDoneIomux, txBufferIomux, rxBufferIomux, seqResult, i2cTrace, printed, spin,
               rxDoneCall, devWrite >>

vars == << pc, grpIdx, loopcnt, logIndex, testPassed, gTestPassed, gAdcAppLog, testResultLog, errTrace,
           gAdcAppDmaCallbackCount, cbkTmp, nCallbackCalls, swTrace, tbCtr, waited, runTicks,
           cntAtStart, dmaBufMem, cacheValid, cacheDirty,
           cacheData, tbCtrMode, tbClkSync, socAEn, socBEn, nTrig, adcHwTrigEn,
           adcNotif, adcStatus, adcResultSet, adcBusy, adcResultReg, dmaInit,
           dmaParam, dmaChEnabled, dmaEvt, dmaXfer, irqPending, irqRegistered,
           cbkRegistered,
           dmaLastDest, engWr,
           dmaArgs,
           dmaCfgErr,
           dmaOther,
           mainRet, xcvrVars >>

swVars == << pc, grpIdx, loopcnt, logIndex, testPassed, gTestPassed, gAdcAppLog, testResultLog, errTrace,
            swTrace, waited, cntAtStart, dmaArgs, mainRet, xcvrVars >>
cacheVars == << dmaBufMem, cacheValid, cacheDirty, cacheData, engWr >>
epwmVars == << tbCtrMode, tbClkSync, socAEn, socBEn, nTrig, tbCtr, runTicks >>
adcVars == << adcHwTrigEn, adcNotif, adcStatus, adcResultSet, adcBusy, adcResultReg >>
dmaVars == << dmaInit, dmaParam, dmaChEnabled, dmaEvt, dmaXfer, irqPending,
              irqRegistered, cbkRegistered, gAdcAppDmaCallbackCount, cbkTmp, nCallbackCalls, dmaLastDest, dmaCfgErr, dmaOther >>

NoParam == [set |-> FALSE]
\* channels 0 .. MaxDmaCh - 1 exist; the application owns ADC_APP_DMA_CHANNEL
DmaChannels == 0 .. (MaxDmaCh - 1)
OtherChannels == DmaChannels \ {ADC_APP_DMA_CHANNEL}
\* slot of a channel the application never touches: no descriptor, event disabled
NoOtherSlots == [c \in OtherChannels |-> [param |-> NoParam, enabled |-> FALSE]]

\* variant: the length passed is that of two samples per channel
AppDmaArgs_TwoSamples == [length |-> ADC_APP_NUM_CHANNEL * 4, dmaCh |-> ADC_APP_DMA_CHANNEL]

\* the arguments of the call Adc_appDmaConfigure(&gAdcAppDmaBuffer[0][0],
\* ADC_APP_NUM_CHANNEL * 2, ADC_APP_DMA_CHANNEL, dmaDataAddr)
AppDmaArgs == [length |-> ADC_APP_NUM_CHANNEL * 2, dmaCh |-> ADC_APP_DMA_CHANNEL]

\* arguments Adc_appDmaConfigure can be called with: a length of zero or of one sample
\* per channel, a channel that exists or the first one that does not
DmaArgSet == [length : {0, ADC_APP_NUM_CHANNEL * 2}, dmaCh : 0 .. MaxDmaCh]
NoXfer == [active |-> FALSE]
NoLog == [dmaBuff |-> 0, hwResult |-> 0, status |-> "ADC_IDLE"]


(* ------------------------------------------------------------------ *)
(* Coherency gate and cached accesses of the CPU                       *)
(* ------------------------------------------------------------------ *)
\* main memory after Mcal_CacheP_wb: dirty lines are pushed to memory
Mcal_CacheP_wb_mem == IF cacheValid /\ cacheDirty THEN cacheData ELSE dmaBufMem

\* what a CPU load of the buffer sees: the cached copy if there is one
CpuReadBuf == IF cacheValid THEN cacheData ELSE dmaBufMem

(* ------------------------------------------------------------------ *)
(* Initial state: reset values of the peripherals, zero-initialised    *)
(* statics, empty cache                                                *)
(* ------------------------------------------------------------------ *)
\* mcan_transceiver.c before mcanEnableTransceiver is called: zero-initialised globals,
\* rxDoneIomux FALSE, the sequences of the initialised driver idle with result OK
XcvrInit ==
    /\ tpc = "Enable_Start"
    /\ nCalls = 0
    /\ callNo = 0
    /\ fn = "none"
    /\ ioIndex = 0
    /\ ioArg = 0
    /\ status = E_OK
    /\ callLog = << >>
    /\ retVals = << >>
    /\ xcvrStatus = E_OK
    /\ bufSetup = -1
    /\ rxDoneIomux = FALSE
    /\ txBufferIomux = [i \in 0 .. 1 |-> 0]
    /\ rxBufferIomux = [i \in 0 .. 1 |-> 0]
    /\ seqResult = [q \in 0 .. 2 |-> "CDD_I2C_SEQ_OK"]
    /\ i2cTrace = << >>
    /\ printed = << >>
    /\ spin = 0
    /\ rxDoneCall = 0
    /\ devWrite = << >>

InitBase ==
    /\ pc = "Init_Platform"
    /\ grpIdx = 0
    /\ loopcnt = 0
    /\ logIndex = 0
    /\ testPassed = E_OK
    /\ gTestPassed = E_OK
    /\ gAdcAppLog = [i \in 0 .. (LogSize - 1) |-> NoLog]
    /\ testResultLog = << >>
    /\ errTrace = {}
    /\ gAdcAppDmaCallbackCount = 0
    /\ cbkTmp = -1
    /\ nCallbackCalls = 0
    /\ swTrace = << >>
    /\ dmaBufMem = ZeroBuf
    /\ cacheValid = FALSE
    /\ cacheDirty = FALSE
    /\ cacheData = ZeroBuf
    /\ tbCtrMode = "STOP_FREEZE"
    /\ tbClkSync = FALSE
    /\ socAEn = FALSE
    /\ socBEn = FALSE
    /\ nTrig = 0
    /\ tbCtr = 0
    /\ waited = 0
    /\ runTicks = 0
    /\ cntAtStart = 0
    /\ adcHwTrigEn = FALSE
    /\ adcNotif = {}
    /\ adcStatus = [g \in Groups |-> "ADC_IDLE"]
    /\ adcResultSet = {}
    /\ adcBusy = FALSE
    /\ adcResultReg = 0
    /\ dmaInit = FALSE
    /\ dmaParam = NoParam
    /\ dmaChEnabled = FALSE
    /\ dmaEvt = FALSE
    /\ dmaXfer = NoXfer
    /\ irqPending = FALSE
    /\ irqRegistered = FALSE
    /\ cbkRegistered = FALSE
    /\ dmaLastDest = -1
    /\ engWr = NoEngWr
    /\ dmaCfgErr = FALSE
    /\ dmaOther = NoOtherSlots
    /\ mainRet = -1
    /\ XcvrInit

\* the application: Adc_appTest passes the arguments of its one call
Init ==
    /\ InitBase
    /\ dmaArgs = AppDmaArgs

\* Adc_appDmaConfigure taken as a function of its arguments
InitConfigArgs ==
    /\ InitBase
    /\ dmaArgs \in DmaArgSet

(* ------------------------------------------------------------------ *)
(* Adc_appInit                                                         *)
(* ------------------------------------------------------------------ *)
Init_Platform ==
    /\ pc = "Init_Platform"
    /\ UNCHANGED << testResultLog, errTrace, waited, cntAtStart, dmaArgs, mainRet, xcvrVars >>
    /\ pc' = "Init_Dma"
    /\ UNCHANGED << grpIdx, loopcnt, logIndex, testPassed, gTestPassed, gAdcAppLog, swTrace >>
    /\ UNCHANGED << cacheVars, epwmVars, adcVars, dmaVars >>

Init_Dma ==
    /\ pc = "Init_Dma"
    /\ UNCHANGED << testResultLog, errTrace, waited, cntAtStart, dmaArgs, mainRet, xcvrVars >>
    /\ dmaInit' = TRUE
    /\ dmaParam' = NoParam
    /\ dmaChEnabled' = FALSE
    /\ dmaOther' = NoOtherSlots
    /\ dmaEvt' = FALSE
    /\ pc' = "Init_Adc"
    /\ UNCHANGED << grpIdx, loopcnt, logIndex, testPassed, gTestPassed, gAdcAppLog, swTrace >>
    /\ UNCHANGED << dmaLastDest, dmaCfgErr, dmaXfer, irqPending, irqRegistered, cbkRegistered, gAdcAppDmaCallbackCount,
                    cbkTmp, nCallbackCalls >>
    /\ UNCHANGED << cacheVars, epwmVars, adcVars >>

Init_Adc ==
    /\ pc = "Init_Adc"
    /\ UNCHANGED << testResultLog, errTrace, waited, cntAtStart, dmaArgs, mainRet, xcvrVars >>
    /\ adcStatus' = [g \in Groups |-> "ADC_IDLE"]
    /\ adcHwTrigEn' = FALSE
    /\ adcNotif' = {}
    /\ adcResultSet' = {}
    /\ pc' = "Init_IntCfg"
    /\ UNCHANGED << grpIdx, loopcnt, logIndex, testPassed, gTestPassed, gAdcAppLog, swTrace >>
    /\ UNCHANGED << adcBusy, adcResultReg >>
    /\ UNCHANGED << cacheVars, epwmVars, dmaVars >>

\* group states the driver may report at setup
AdcStatusAtSetup == {"ADC_IDLE", "ADC_BUSY"}

\* Adc_Init of a driver that leaves none or one of its groups not idle
Init_Adc_NotIdle ==
    /\ pc = "Init_Adc"
    /\ UNCHANGED << testResultLog, errTrace, waited, cntAtStart, dmaArgs, mainRet, xcvrVars >>
    /\ \E st \in [Groups -> AdcStatusAtSetup] :
         /\ Cardinality({g \in Groups : st[g] # "ADC_IDLE"}) <= 1
         /\ adcStatus' = st
    /\ adcHwTrigEn' = FALSE
    /\ adcNotif' = {}
    /\ adcResultSet' = {}
    /\ pc' = "Init_IntCfg"
    /\ UNCHANGED << grpIdx, loopcnt, logIndex, testPassed, gTestPassed, gAdcAppLog, swTrace >>
    /\ UNCHANGED << adcBusy, adcResultReg >>
    /\ UNCHANGED << cacheVars, epwmVars, dmaVars >>

Adc_appInterruptConfig ==
    /\ pc = "Init_IntCfg"
    /\ UNCHANGED << testResultLog, errTrace, waited, cntAtStart, dmaArgs, mainRet, xcvrVars >>
    /\ irqRegistered' = TRUE
    /\ pc' = "Init_CbkReg"
    /\ UNCHANGED << grpIdx, loopcnt, logIndex, testPassed, gTestPassed, gAdcAppLog, swTrace >>
    /\ UNCHANGED << dmaLastDest, dmaCfgErr, dmaOther, dmaInit, dmaParam, dmaChEnabled, dmaEvt, dmaXfer, irqPending,
                    cbkRegistered, gAdcAppDmaCallbackCount,
                    cbkTmp, nCallbackCalls >>
    /\ UNCHANGED << cacheVars, epwmVars, adcVars >>

\* variant: the application callback is not registered
Init_CbkReg_Omitted ==
    /\ pc = "Init_CbkReg"
    /\ UNCHANGED << testResultLog, errTrace, waited, cntAtStart, dmaArgs, mainRet, xcvrVars >>
    /\ pc' = "Setup_Status"
    /\ grpIdx' = 0
    /\ UNCHANGED << loopcnt, logIndex, testPassed, gTestPassed, gAdcAppLog, swTrace >>
    /\ UNCHANGED << cacheVars, epwmVars, adcVars, dmaVars >>

Init_CbkReg ==
    /\ pc = "Init_CbkReg"
    /\ UNCHANGED << testResultLog, errTrace, waited, cntAtStart, dmaArgs, mainRet, xcvrVars >>
    /\ cbkRegistered' = TRUE
    /\ pc' = "Setup_Status"
    /\ grpIdx' = 0
    /\ UNCHANGED << loopcnt, logIndex, testPassed, gTestPassed, gAdcAppLog, swTrace >>
    /\ UNCHANGED << dmaLastDest, dmaCfgErr, dmaOther, dmaInit, dmaParam, dmaChEnabled, dmaEvt, dmaXfer, irqPending,
                    irqRegistered, gAdcAppDmaCallbackCount,
                    cbkTmp, nCallbackCalls >>
    /\ UNCHANGED << cacheVars, epwmVars, adcVars >>

(* ------------------------------------------------------------------ *)
(* Adc_appTest: setup of all groups                                    *)
(* ------------------------------------------------------------------ *)
\* variant: a group found not idle ends Adc_appTest at once
Setup_Status_Abort ==
    /\ pc = "Setup_Status"
    /\ UNCHANGED << testResultLog, waited, cntAtStart, dmaArgs, mainRet, xcvrVars >>
    /\ errTrace' = IF adcStatus[grpIdx] # "ADC_IDLE"
                     THEN errTrace \cup {<< "ADC Group is not IDLE", grpIdx >>} ELSE errTrace
    /\ testPassed' = IF adcStatus[grpIdx] # "ADC_IDLE" THEN E_NOT_OK ELSE testPassed
    /\ pc' = IF adcStatus[grpIdx] # "ADC_IDLE" THEN "Test_Verdict" ELSE "Setup_Buffer"
    /\ UNCHANGED << grpIdx, loopcnt, logIndex, gTestPassed, gAdcAppLog, swTrace >>
    /\ UNCHANGED << cacheVars, epwmVars, adcVars, dmaVars >>

\* variant: a group found not idle is skipped (no result buffer set up for it)
Setup_Status_Continue ==
    /\ pc = "Setup_Status"
    /\ UNCHANGED << testResultLog, waited, cntAtStart, dmaArgs, mainRet, xcvrVars >>
    /\ errTrace' = IF adcStatus[grpIdx] # "ADC_IDLE"
                     THEN errTrace \cup {<< "ADC Group is not IDLE", grpIdx >>} ELSE errTrace
    /\ testPassed' = IF adcStatus[grpIdx] # "ADC_IDLE" THEN E_NOT_OK ELSE testPassed
    /\ IF adcStatus[grpIdx] = "ADC_IDLE"
         THEN pc' = "Setup_Buffer" /\ UNCHANGED << grpIdx, loopcnt >>
         ELSE /\ grpIdx' = grpIdx + 1
              /\ pc' = IF grpIdx + 1 < ADC_MAX_GROUP THEN "Setup_Status" ELSE "Loop_Memset"
              /\ loopcnt' = 0
    /\ UNCHANGED << logIndex, gTestPassed, gAdcAppLog, swTrace >>
    /\ UNCHANGED << cacheVars, epwmVars, adcVars, dmaVars >>

Setup_Status ==
    /\ pc = "Setup_Status"
    /\ UNCHANGED << testResultLog, waited, cntAtStart, dmaArgs, mainRet, xcvrVars >>
    /\ errTrace' = IF adcStatus[grpIdx] # "ADC_IDLE"
                     THEN errTrace \cup {<< "ADC Group is not IDLE", grpIdx >>} ELSE errTrace
    /\ testPassed' = IF adcStatus[grpIdx] # "ADC_IDLE" THEN E_NOT_OK ELSE testPassed
    /\ pc' = "Setup_Buffer"
    /\ UNCHANGED << grpIdx, loopcnt, logIndex, gTestPassed, gAdcAppLog, swTrace >>
    /\ UNCHANGED << cacheVars, epwmVars, adcVars, dmaVars >>

\* return value of Adc_SetupResultBuffer: refused unless the group is idle
Adc_SetupResultBuffer(grp) == IF adcStatus[grp] = "ADC_IDLE" THEN E_OK ELSE E_NOT_OK

Setup_Buffer ==
    /\ pc = "Setup_Buffer"
    /\ UNCHANGED << testResultLog, waited, cntAtStart, dmaArgs, mainRet, xcvrVars >>
    /\ errTrace' = IF Adc_SetupResultBuffer(grpIdx) # E_OK
                     THEN errTrace \cup {<< "ADC Group setup buffer failed", grpIdx >>} ELSE errTrace
    /\ LET retVal == Adc_SetupResultBuffer(grpIdx) IN
         /\ adcResultSet' = IF retVal = E_OK THEN adcResultSet \cup {grpIdx} ELSE adcResultSet
         /\ testPassed' = IF retVal # E_OK THEN E_NOT_OK ELSE testPassed
    /\ IF grpIdx + 1 < ADC_MAX_GROUP
         THEN /\ grpIdx' = grpIdx + 1
              /\ pc' = "Setup_Status"
              /\ UNCHANGED loopcnt
         ELSE /\ grpIdx' = grpIdx + 1
              /\ loopcnt' = 0
              /\ pc' = IF 0 < LoopCnt THEN "Loop_Memset" ELSE "Test_Verdict"
    /\ UNCHANGED << logIndex, gTestPassed, gAdcAppLog, swTrace >>
    /\ UNCHANGED << adcHwTrigEn, adcNotif, adcStatus, adcBusy, adcResultReg >>
    /\ UNCHANGED << cacheVars, epwmVars, dmaVars >>


(* ------------------------------------------------------------------ *)
(* Adc_appTest: capture loop, arming                                   *)
(* ------------------------------------------------------------------ *)
\* memset of gAdcAppDmaBuffer: a cached CPU store of zeroes
\* variant: the callback counter is cleared at the start of every iteration
Loop_Memset_ResetCount ==
    /\ pc = "Loop_Memset"
    /\ UNCHANGED << testResultLog, errTrace, waited, cntAtStart, dmaArgs, mainRet, xcvrVars >>
    /\ cacheValid' = TRUE
    /\ cacheDirty' = TRUE
    /\ cacheData' = ZeroBuf
    /\ engWr' = NoEngWr
    /\ swTrace' = << "memset" >>
    /\ gAdcAppDmaCallbackCount' = 0
    /\ pc' = "Loop_CacheWb"
    /\ UNCHANGED << grpIdx, loopcnt, logIndex, testPassed, gTestPassed, gAdcAppLog >>
    /\ UNCHANGED << dmaBufMem, epwmVars, adcVars >>
    /\ UNCHANGED << dmaLastDest, dmaCfgErr, dmaOther, dmaInit, dmaParam, dmaChEnabled, dmaEvt, dmaXfer, irqPending,
                    irqRegistered, cbkRegistered, cbkTmp, nCallbackCalls >>

Loop_Memset ==
    /\ pc = "Loop_Memset"
    /\ UNCHANGED << testResultLog, errTrace, waited, cntAtStart, dmaArgs, mainRet, xcvrVars >>
    /\ cacheValid' = TRUE
    /\ cacheDirty' = TRUE
    /\ cacheData' = ZeroBuf
    /\ engWr' = NoEngWr
    /\ swTrace' = << "memset" >>
    /\ pc' = "Loop_CacheWb"
    /\ UNCHANGED << grpIdx, loopcnt, logIndex, testPassed, gTestPassed, gAdcAppLog >>
    /\ UNCHANGED << dmaBufMem, epwmVars, adcVars, dmaVars >>

\* variant: the write-back after the zero-fill is omitted
Loop_CacheWb_Omitted ==
    /\ pc = "Loop_CacheWb"
    /\ UNCHANGED << testResultLog, errTrace, waited, cntAtStart, dmaArgs, mainRet, xcvrVars >>
    /\ grpIdx' = 0
    /\ pc' = IF 0 < ADC_MAX_GROUP THEN "Loop_EnableNotif" ELSE "Loop_EnableHwTrig"
    /\ UNCHANGED << loopcnt, logIndex, testPassed, gTestPassed, gAdcAppLog, swTrace >>
    /\ UNCHANGED << cacheVars, epwmVars, adcVars, dmaVars >>

Loop_CacheWb ==
    /\ pc = "Loop_CacheWb"
    /\ UNCHANGED << testResultLog, errTrace, waited, cntAtStart, dmaArgs, mainRet, xcvrVars >>
    /\ dmaBufMem' = Mcal_CacheP_wb_mem
    /\ cacheDirty' = FALSE
    /\ swTrace' = Append(swTrace, "wb")
    /\ grpIdx' = 0
    /\ pc' = IF 0 < ADC_MAX_GROUP THEN "Loop_EnableNotif" ELSE "Loop_EnableHwTrig"
    /\ UNCHANGED << loopcnt, logIndex, testPassed, gTestPassed, gAdcAppLog >>
    /\ UNCHANGED << cacheValid, cacheData, engWr, epwmVars, adcVars, dmaVars >>

Loop_EnableNotif ==
    /\ pc = "Loop_EnableNotif"
    /\ UNCHANGED << testResultLog, errTrace, waited, cntAtStart, dmaArgs, mainRet, xcvrVars >>
    /\ adcNotif' = adcNotif \cup {grpIdx}
    /\ swTrace' = Append(swTrace, "notifOn")
    /\ grpIdx' = grpIdx + 1
    /\ pc' = IF grpIdx + 1 < ADC_MAX_GROUP THEN "Loop_EnableNotif" ELSE "Loop_EnableHwTrig"
    /\ UNCHANGED << loopcnt, logIndex, testPassed, gTestPassed, gAdcAppLog >>
    /\ UNCHANGED << adcHwTrigEn, adcStatus, adcResultSet, adcBusy, adcResultReg >>
    /\ UNCHANGED << cacheVars, epwmVars, dmaVars >>

Loop_EnableHwTrig ==
    /\ pc = "Loop_EnableHwTrig"
    /\ UNCHANGED << testResultLog, errTrace, waited, cntAtStart, dmaArgs, mainRet, xcvrVars >>
    /\ adcHwTrigEn' = TRUE
    /\ adcStatus' = [adcStatus EXCEPT ![ADC_APP_GROUP_ID] = "ADC_BUSY"]
    /\ swTrace' = Append(swTrace, "hwTrigOn")
    /\ pc' = "Loop_IntCont"
    /\ UNCHANGED << grpIdx, loopcnt, logIndex, testPassed, gTestPassed, gAdcAppLog >>
    /\ UNCHANGED << adcNotif, adcResultSet, adcBusy, adcResultReg >>
    /\ UNCHANGED << cacheVars, epwmVars, dmaVars >>

\* variant: the call of Adc_appDmaConfigure is missing
Loop_IntCont_NoDmaConfigure(next) ==
    /\ pc = "Loop_IntCont"
    /\ UNCHANGED << testResultLog, errTrace, waited, cntAtStart, dmaArgs, mainRet, xcvrVars >>
    /\ swTrace' = Append(swTrace, "intCont")
    /\ pc' = "Epwm_TimeBase"
    /\ UNCHANGED << grpIdx, loopcnt, logIndex, testPassed, gTestPassed, gAdcAppLog >>
    /\ UNCHANGED << cacheVars, epwmVars, adcVars, dmaVars >>

Loop_IntCont(next) ==
    /\ pc = "Loop_IntCont"
    /\ UNCHANGED << testResultLog, errTrace, waited, cntAtStart, dmaArgs, mainRet, xcvrVars >>
    /\ swTrace' = Append(swTrace, "intCont")
    /\ pc' = next
    /\ UNCHANGED << grpIdx, loopcnt, logIndex, testPassed, gTestPassed, gAdcAppLog >>
    /\ UNCHANGED << cacheVars, epwmVars, adcVars, dmaVars >>

\* variant: the B-count is left at zero
edmaParamFor_ZeroFrames(destPtr, length, srcAddr) ==
    [ set        |-> TRUE,
      srcPtr     |-> srcAddr,
      destPtr    |-> destPtr,
      aCnt       |-> length,
      bCnt       |-> 0,
      cCnt       |-> 1,
      bCntReload |-> 0,
      srcBIdx    |-> 0,
      destBIdx   |-> 0,
      srcCIdx    |-> 0,
      destCIdx   |-> SampleBytes,
      tcinten    |-> TRUE,
      itcinten   |-> TRUE,
      syncdim    |-> TRUE,
      static     |-> TRUE ]

\* variant: the static option is left out of the option word
edmaParamFor_NoStatic(destPtr, length, srcAddr) ==
    [ set        |-> TRUE,
      srcPtr     |-> srcAddr,
      destPtr    |-> destPtr,
      aCnt       |-> length,
      bCnt       |-> 1,
      cCnt       |-> 1,
      bCntReload |-> 0,
      srcBIdx    |-> 0,
      destBIdx   |-> 0,
      srcCIdx    |-> 0,
      destCIdx   |-> 2,
      tcinten    |-> TRUE,
      itcinten   |-> TRUE,
      syncdim    |-> TRUE,
      static     |-> FALSE ]

\* variant: a two-frame descriptor without the static option (the frame stride is applied)
edmaParamFor_MultiFrame(destPtr, length, srcAddr) ==
    [ set        |-> TRUE,
      srcPtr     |-> srcAddr,
      destPtr    |-> destPtr,
      aCnt       |-> length,
      bCnt       |-> 1,
      cCnt       |-> 2,
      bCntReload |-> 0,
      srcBIdx    |-> 0,
      destBIdx   |-> 0,
      srcCIdx    |-> 0,
      destCIdx   |-> 2,
      tcinten    |-> TRUE,
      itcinten   |-> TRUE,
      syncdim    |-> TRUE,
      static     |-> FALSE ]

\* the descriptor Adc_appDmaConfigure builds from its arguments
edmaParamFor(destPtr, length, srcAddr) ==
    [ set        |-> TRUE,
      srcPtr     |-> srcAddr,
      destPtr    |-> destPtr,
      aCnt       |-> length,
      bCnt       |-> 1,
      cCnt       |-> 1,
      bCntReload |-> 0,
      srcBIdx    |-> 0,
      destBIdx   |-> 0,
      srcCIdx    |-> 0,
      destCIdx   |-> 2,
      tcinten    |-> TRUE,
      itcinten   |-> TRUE,
      syncdim    |-> TRUE,
      static     |-> TRUE ]

\* the descriptor of the call Adc_appTest makes
edmaParam == edmaParamFor(BufIndex(0, 0), AppDmaArgs.length, "ADC_RESULT")

\* configure succeeds on a slot that exists with non-zero element and frame counts
ConfigOk(ch, p) == ch \in DmaChannels /\ p.aCnt > 0 /\ p.bCnt > 0 /\ p.cCnt > 0

\* Cdd_Dma_ParamSet(dmaCh, 0, 0, edmaParam): installs the descriptor in the slot of
\* dmaCh, or fails and leaves every slot as it is; the call site drops the outcome
Dma_ParamSet ==
    /\ pc = "Dma_ParamSet"
    /\ UNCHANGED << testResultLog, errTrace, waited, cntAtStart, dmaArgs, mainRet, xcvrVars >>
    /\ LET p == edmaParamFor(BufIndex(0, 0), dmaArgs.length, "ADC_RESULT")
           ch == dmaArgs.dmaCh
       IN  IF ConfigOk(ch, p)
             THEN /\ dmaCfgErr' = FALSE
                  /\ IF ch = ADC_APP_DMA_CHANNEL
                        THEN /\ dmaParam' = p
                             /\ dmaLastDest' = -1
                             /\ UNCHANGED dmaOther
                        ELSE /\ dmaOther' = IF ch \in OtherChannels
                                               THEN [dmaOther EXCEPT ![ch].param = p]
                                               ELSE dmaOther
                             /\ UNCHANGED << dmaParam, dmaLastDest >>
             ELSE /\ dmaCfgErr' = TRUE
                  /\ UNCHANGED << dmaParam, dmaLastDest, dmaOther >>
    /\ swTrace' = Append(swTrace, "paramSet")
    /\ pc' = "Dma_EnableRegion"
    /\ UNCHANGED << grpIdx, loopcnt, logIndex, testPassed, gTestPassed, gAdcAppLog >>
    /\ UNCHANGED << dmaInit, dmaChEnabled, dmaEvt, dmaXfer, irqPending, irqRegistered,
                    cbkRegistered, gAdcAppDmaCallbackCount,
                    cbkTmp, nCallbackCalls >>
    /\ UNCHANGED << cacheVars, epwmVars, adcVars >>

\* Cdd_Dma_EnableTransferRegion(dmaCh, CDD_EDMA_TRIG_MODE_EVENT): the event enable of
\* channel dmaCh is set; a channel that does not exist has no enable to set
Dma_EnableRegion(next) ==
    /\ pc = "Dma_EnableRegion"
    /\ UNCHANGED << testResultLog, errTrace, waited, cntAtStart, dmaArgs, mainRet, xcvrVars >>
    /\ dmaChEnabled' = IF dmaArgs.dmaCh = ADC_APP_DMA_CHANNEL THEN TRUE ELSE dmaChEnabled
    /\ dmaOther' = IF dmaArgs.dmaCh \in OtherChannels
                      THEN [dmaOther EXCEPT ![dmaArgs.dmaCh].enabled = TRUE]
                      ELSE dmaOther
    /\ swTrace' = Append(swTrace, "arm")
    /\ pc' = next
    /\ UNCHANGED << grpIdx, loopcnt, logIndex, testPassed, gTestPassed, gAdcAppLog >>
    /\ UNCHANGED << dmaLastDest, dmaCfgErr, dmaInit, dmaParam, dmaEvt, dmaXfer, irqPending, irqRegistered,
                    cbkRegistered, gAdcAppDmaCallbackCount,
                    cbkTmp, nCallbackCalls >>
    /\ UNCHANGED << cacheVars, epwmVars, adcVars >>

\* Adc_appEpwmEnable, time base: counter cleared and held in stop-freeze
Epwm_TimeBase ==
    /\ pc = "Epwm_TimeBase"
    /\ UNCHANGED << testResultLog, errTrace, waited, cntAtStart, dmaArgs, mainRet, xcvrVars >>
    /\ tbCtr' = 0
    /\ tbCtrMode' = "STOP_FREEZE"
    /\ swTrace' = Append(swTrace, "epwmTimeBase")
    /\ pc' = "Epwm_SocA"
    /\ UNCHANGED << grpIdx, loopcnt, logIndex, testPassed, gTestPassed, gAdcAppLog >>
    /\ UNCHANGED << tbClkSync, socAEn, socBEn, nTrig, runTicks >>
    /\ UNCHANGED << cacheVars, adcVars, dmaVars >>

\* Adc_appEpwmEnable, event trigger: SOC-A enabled
\* variant: the SOC-A trigger output is left disabled
Epwm_SocA_NotEnabled ==
    /\ pc = "Epwm_SocA"
    /\ UNCHANGED << testResultLog, errTrace, waited, cntAtStart, dmaArgs, mainRet, xcvrVars >>
    /\ swTrace' = Append(swTrace, "epwmSocA")
    /\ pc' = "Epwm_SocB"
    /\ UNCHANGED << grpIdx, loopcnt, logIndex, testPassed, gTestPassed, gAdcAppLog >>
    /\ UNCHANGED << cacheVars, epwmVars, adcVars, dmaVars >>

Epwm_SocA ==
    /\ pc = "Epwm_SocA"
    /\ UNCHANGED << testResultLog, errTrace, waited, cntAtStart, dmaArgs, mainRet, xcvrVars >>
    /\ socAEn' = TRUE
    /\ swTrace' = Append(swTrace, "epwmSocA")
    /\ pc' = "Epwm_SocB"
    /\ UNCHANGED << grpIdx, loopcnt, logIndex, testPassed, gTestPassed, gAdcAppLog >>
    /\ UNCHANGED << tbCtrMode, tbClkSync, socBEn, nTrig, tbCtr, runTicks >>
    /\ UNCHANGED << cacheVars, adcVars, dmaVars >>

\* Adc_appEpwmEnable, event trigger: SOC-B disabled, registers locked
Epwm_SocB ==
    /\ pc = "Epwm_SocB"
    /\ UNCHANGED << testResultLog, errTrace, waited, cntAtStart, dmaArgs, mainRet, xcvrVars >>
    /\ socBEn' = FALSE
    /\ swTrace' = Append(swTrace, "epwmSocB")
    /\ pc' = "Loop_CounterUp"
    /\ UNCHANGED << grpIdx, loopcnt, logIndex, testPassed, gTestPassed, gAdcAppLog >>
    /\ UNCHANGED << tbCtrMode, tbClkSync, socAEn, nTrig, tbCtr, runTicks >>
    /\ UNCHANGED << cacheVars, adcVars, dmaVars >>

Loop_CounterUp ==
    /\ pc = "Loop_CounterUp"
    /\ UNCHANGED << testResultLog, errTrace, waited, cntAtStart, dmaArgs, mainRet, xcvrVars >>
    /\ tbCtrMode' = "UP"
    /\ runTicks' = 0
    /\ swTrace' = Append(swTrace, "ctrUp")
    /\ pc' = "Loop_TbClkSync"
    /\ UNCHANGED << grpIdx, loopcnt, logIndex, testPassed, gTestPassed, gAdcAppLog >>
    /\ UNCHANGED << tbClkSync, socAEn, socBEn, nTrig, tbCtr >>
    /\ UNCHANGED << cacheVars, adcVars, dmaVars >>

Loop_TbClkSync(next) ==
    /\ pc = "Loop_TbClkSync"
    /\ UNCHANGED << testResultLog, errTrace, waited, cntAtStart, dmaArgs, mainRet, xcvrVars >>
    /\ tbClkSync' = TRUE
    /\ swTrace' = Append(swTrace, "clkSync")
    /\ pc' = next
    /\ UNCHANGED << grpIdx, loopcnt, logIndex, testPassed, gTestPassed, gAdcAppLog >>
    /\ UNCHANGED << tbCtrMode, socAEn, socBEn, nTrig, tbCtr, runTicks >>
    /\ UNCHANGED << cacheVars, adcVars, dmaVars >>


(* ------------------------------------------------------------------ *)
(* Adc_appPrintResult: poll loop                                       *)
(* ------------------------------------------------------------------ *)
Print_Start ==
    /\ pc = "Print_Start"
    /\ UNCHANGED << testResultLog, errTrace, waited, cntAtStart, dmaArgs, mainRet, xcvrVars >>
    /\ logIndex' = 0
    /\ pc' = IF 0 < LogSize THEN "Print_CacheInv" ELSE "Dis_SocA"
    /\ UNCHANGED << grpIdx, loopcnt, testPassed, gTestPassed, gAdcAppLog, swTrace >>
    /\ UNCHANGED << cacheVars, epwmVars, adcVars, dmaVars >>

\* variant: the invalidate does not cover the buffer's lines
Print_CacheInv_NoDiscard ==
    /\ pc = "Print_CacheInv"
    /\ UNCHANGED << testResultLog, errTrace, waited, cntAtStart, dmaArgs, mainRet, xcvrVars >>
    /\ swTrace' = Append(swTrace, "inv")
    /\ pc' = "Print_ReadBuf"
    /\ UNCHANGED << grpIdx, loopcnt, logIndex, testPassed, gTestPassed, gAdcAppLog >>
    /\ UNCHANGED << cacheVars, epwmVars, adcVars, dmaVars >>

\* Mcal_CacheP_inv of the whole buffer: the cached copy is discarded
Print_CacheInv ==
    /\ pc = "Print_CacheInv"
    /\ UNCHANGED << testResultLog, errTrace, waited, cntAtStart, dmaArgs, mainRet, xcvrVars >>
    /\ cacheValid' = FALSE
    /\ cacheDirty' = FALSE
    /\ swTrace' = Append(swTrace, "inv")
    /\ pc' = "Print_ReadBuf"
    /\ UNCHANGED << grpIdx, loopcnt, logIndex, testPassed, gTestPassed, gAdcAppLog >>
    /\ UNCHANGED << dmaBufMem, cacheData, engWr, epwmVars, adcVars, dmaVars >>

\* gAdcAppLog[logIndex].dmaBuff = gAdcAppDmaBuffer[0][0]: a cached CPU load
Print_ReadBuf ==
    /\ pc = "Print_ReadBuf"
    /\ UNCHANGED << testResultLog, errTrace, waited, cntAtStart, dmaArgs, mainRet, xcvrVars >>
    /\ gAdcAppLog' = [gAdcAppLog EXCEPT ![logIndex].dmaBuff = CpuReadBuf[BufIndex(0, 0)]]
    /\ cacheData' = CpuReadBuf
    /\ cacheValid' = TRUE
    /\ swTrace' = Append(swTrace, "read")
    /\ pc' = "Print_ReadHw"
    /\ UNCHANGED << grpIdx, loopcnt, logIndex, testPassed, gTestPassed >>
    /\ UNCHANGED << dmaBufMem, cacheDirty, engWr, epwmVars, adcVars, dmaVars >>

\* variant: the hardware value is always stored in entry 0
Print_ReadHw_Entry0 ==
    /\ pc = "Print_ReadHw"
    /\ UNCHANGED << testResultLog, errTrace, waited, cntAtStart, dmaArgs, mainRet, xcvrVars >>
    /\ gAdcAppLog' = [gAdcAppLog EXCEPT ![0].hwResult = adcResultReg]
    /\ swTrace' = Append(swTrace, "readHw")
    /\ pc' = "Print_Status"
    /\ UNCHANGED << grpIdx, loopcnt, logIndex, testPassed, gTestPassed >>
    /\ UNCHANGED << cacheVars, epwmVars, adcVars, dmaVars >>

Print_ReadHw ==
    /\ pc = "Print_ReadHw"
    /\ UNCHANGED << testResultLog, errTrace, waited, cntAtStart, dmaArgs, mainRet, xcvrVars >>
    /\ gAdcAppLog' = [gAdcAppLog EXCEPT ![logIndex].hwResult = adcResultReg]
    /\ swTrace' = Append(swTrace, "readHw")
    /\ pc' = "Print_Status"
    /\ UNCHANGED << grpIdx, loopcnt, logIndex, testPassed, gTestPassed >>
    /\ UNCHANGED << cacheVars, epwmVars, adcVars, dmaVars >>

\* variant: the tick clears the completion counter once the status is logged
Print_Status_ClearsCount ==
    /\ pc = "Print_Status"
    /\ UNCHANGED << testResultLog, errTrace, waited, cntAtStart, dmaArgs, mainRet, xcvrVars >>
    /\ gAdcAppLog' = [gAdcAppLog EXCEPT ![logIndex].status = adcStatus[0]]
    /\ gAdcAppDmaCallbackCount' = 0
    /\ swTrace' = Append(swTrace, "status")
    /\ pc' = "Print_Delay"
    /\ UNCHANGED << grpIdx, loopcnt, logIndex, testPassed, gTestPassed >>
    /\ UNCHANGED << dmaLastDest, dmaCfgErr, dmaOther, dmaInit, dmaParam, dmaChEnabled, dmaEvt, dmaXfer,
                    irqPending, irqRegistered, cbkRegistered, cbkTmp, nCallbackCalls >>
    /\ UNCHANGED << cacheVars, epwmVars, adcVars >>

Print_Status ==
    /\ pc = "Print_Status"
    /\ UNCHANGED << testResultLog, errTrace, waited, cntAtStart, dmaArgs, mainRet, xcvrVars >>
    /\ gAdcAppLog' = [gAdcAppLog EXCEPT ![logIndex].status = adcStatus[0]]
    /\ swTrace' = Append(swTrace, "status")
    /\ pc' = "Print_Delay"
    /\ UNCHANGED << grpIdx, loopcnt, logIndex, testPassed, gTestPassed >>
    /\ UNCHANGED << cacheVars, epwmVars, adcVars, dmaVars >>

\* variant: the invalidate is hoisted out of the poll loop
Print_Delay_InvHoisted ==
    /\ pc = "Print_Delay"
    /\ UNCHANGED << testResultLog, errTrace, cntAtStart, dmaArgs, mainRet, xcvrVars >>
    /\ swTrace' = Append(swTrace, "delay")
    /\ waited' = 0
    /\ logIndex' = logIndex + 1
    /\ pc' = IF logIndex + 1 < LogSize THEN "Print_ReadBuf" ELSE "Dis_SocA"
    /\ UNCHANGED << grpIdx, loopcnt, testPassed, gTestPassed, gAdcAppLog >>
    /\ UNCHANGED << cacheVars, epwmVars, adcVars, dmaVars >>

\* variant: the poll loop runs while logIndex <= ADC_APP_LOG_SIZE
Print_Delay_OneTickMore ==
    /\ pc = "Print_Delay"
    /\ UNCHANGED << testResultLog, errTrace, cntAtStart, dmaArgs, mainRet, xcvrVars >>
    /\ swTrace' = Append(swTrace, "delay")
    /\ waited' = 0
    /\ logIndex' = logIndex + 1
    /\ pc' = IF logIndex + 1 <= LogSize THEN "Print_CacheInv" ELSE "Dis_SocA"
    /\ UNCHANGED << grpIdx, loopcnt, testPassed, gTestPassed, gAdcAppLog >>
    /\ UNCHANGED << cacheVars, epwmVars, adcVars, dmaVars >>

\* variant: the tick waits for a completion to have been counted before it goes on
Print_Delay_WaitTransfer ==
    /\ pc = "Print_Delay"
    /\ gAdcAppDmaCallbackCount > 0
    /\ UNCHANGED << testResultLog, errTrace, cntAtStart, dmaArgs, mainRet, xcvrVars >>
    /\ swTrace' = Append(swTrace, "delay")
    /\ waited' = 0
    /\ logIndex' = logIndex + 1
    /\ pc' = IF logIndex + 1 < LogSize THEN "Print_CacheInv" ELSE "Dis_SocA"
    /\ UNCHANGED << grpIdx, loopcnt, testPassed, gTestPassed, gAdcAppLog >>
    /\ UNCHANGED << cacheVars, epwmVars, adcVars, dmaVars >>

Print_Delay ==
    /\ pc = "Print_Delay"
    /\ UNCHANGED << testResultLog, errTrace, cntAtStart, dmaArgs, mainRet, xcvrVars >>
    /\ swTrace' = Append(swTrace, "delay")
    /\ waited' = 0
    /\ logIndex' = logIndex + 1
    /\ pc' = IF logIndex + 1 < LogSize THEN "Print_CacheInv" ELSE "Dis_SocA"
    /\ UNCHANGED << grpIdx, loopcnt, testPassed, gTestPassed, gAdcAppLog >>
    /\ UNCHANGED << cacheVars, epwmVars, adcVars, dmaVars >>

(* ------------------------------------------------------------------ *)
(* Adc_appDisableTrigger and the rest of the loop body                 *)
(* ------------------------------------------------------------------ *)
\* variant: the call of Adc_appDisableTrigger is missing
Dis_SocA_NoDisable ==
    /\ pc = "Dis_SocA"
    /\ UNCHANGED << testResultLog, errTrace, waited, cntAtStart, dmaArgs, mainRet, xcvrVars >>
    /\ pc' = "Loop_DisableHwTrig"
    /\ UNCHANGED << grpIdx, loopcnt, logIndex, testPassed, gTestPassed, gAdcAppLog, swTrace >>
    /\ UNCHANGED << cacheVars, epwmVars, adcVars, dmaVars >>

Dis_SocA ==
    /\ pc = "Dis_SocA"
    /\ UNCHANGED << testResultLog, errTrace, waited, cntAtStart, dmaArgs, mainRet, xcvrVars >>
    /\ socAEn' = FALSE
    /\ swTrace' = Append(swTrace, "socAOff")
    /\ pc' = "Dis_SocB"
    /\ UNCHANGED << grpIdx, loopcnt, logIndex, testPassed, gTestPassed, gAdcAppLog >>
    /\ UNCHANGED << tbCtrMode, tbClkSync, socBEn, nTrig, tbCtr, runTicks >>
    /\ UNCHANGED << cacheVars, adcVars, dmaVars >>

\* variant: the counter is not frozen
Dis_SocB_NoFreeze ==
    /\ pc = "Dis_SocB"
    /\ UNCHANGED << testResultLog, errTrace, waited, cntAtStart, dmaArgs, mainRet, xcvrVars >>
    /\ socBEn' = FALSE
    /\ swTrace' = Append(swTrace, "socBOff")
    /\ pc' = "Loop_DisableHwTrig"
    /\ UNCHANGED << grpIdx, loopcnt, logIndex, testPassed, gTestPassed, gAdcAppLog >>
    /\ UNCHANGED << tbCtrMode, tbClkSync, socAEn, nTrig, tbCtr, runTicks >>
    /\ UNCHANGED << cacheVars, adcVars, dmaVars >>

Dis_SocB ==
    /\ pc = "Dis_SocB"
    /\ UNCHANGED << testResultLog, errTrace, waited, cntAtStart, dmaArgs, mainRet, xcvrVars >>
    /\ socBEn' = FALSE
    /\ swTrace' = Append(swTrace, "socBOff")
    /\ pc' = "Dis_Freeze"
    /\ UNCHANGED << grpIdx, loopcnt, logIndex, testPassed, gTestPassed, gAdcAppLog >>
    /\ UNCHANGED << tbCtrMode, tbClkSync, socAEn, nTrig, tbCtr, runTicks >>
    /\ UNCHANGED << cacheVars, adcVars, dmaVars >>

Dis_Freeze(next) ==
    /\ pc = "Dis_Freeze"
    /\ UNCHANGED << testResultLog, errTrace, waited, cntAtStart, dmaArgs, mainRet, xcvrVars >>
    /\ tbCtrMode' = "STOP_FREEZE"
    /\ swTrace' = Append(swTrace, "freeze")
    /\ pc' = next
    /\ UNCHANGED << grpIdx, loopcnt, logIndex, testPassed, gTestPassed, gAdcAppLog >>
    /\ UNCHANGED << tbClkSync, socAEn, socBEn, nTrig, tbCtr, runTicks >>
    /\ UNCHANGED << cacheVars, adcVars, dmaVars >>

\* a second call of Adc_appDisableTrigger, made right after the first has returned
\* variant: EPWM_disableADCTrigger toggles the enable bit instead of clearing it
Dis2_SocA_Toggle ==
    /\ pc = "Dis2_SocA"
    /\ UNCHANGED << testResultLog, errTrace, waited, cntAtStart, dmaArgs, mainRet, xcvrVars >>
    /\ socAEn' = ~socAEn
    /\ swTrace' = Append(swTrace, "socAOff")
    /\ pc' = "Dis2_SocB"
    /\ UNCHANGED << grpIdx, loopcnt, logIndex, testPassed, gTestPassed, gAdcAppLog >>
    /\ UNCHANGED << tbCtrMode, tbClkSync, socBEn, nTrig, tbCtr, runTicks >>
    /\ UNCHANGED << cacheVars, adcVars, dmaVars >>

Dis2_SocA ==
    /\ pc = "Dis2_SocA"
    /\ UNCHANGED << testResultLog, errTrace, waited, cntAtStart, dmaArgs, mainRet, xcvrVars >>
    /\ socAEn' = FALSE
    /\ swTrace' = Append(swTrace, "socAOff")
    /\ pc' = "Dis2_SocB"
    /\ UNCHANGED << grpIdx, loopcnt, logIndex, testPassed, gTestPassed, gAdcAppLog >>
    /\ UNCHANGED << tbCtrMode, tbClkSync, socBEn, nTrig, tbCtr, runTicks >>
    /\ UNCHANGED << cacheVars, adcVars, dmaVars >>

Dis2_SocB ==
    /\ pc = "Dis2_SocB"
    /\ UNCHANGED << testResultLog, errTrace, waited, cntAtStart, dmaArgs, mainRet, xcvrVars >>
    /\ socBEn' = FALSE
    /\ swTrace' = Append(swTrace, "socBOff")
    /\ pc' = "Dis2_Freeze"
    /\ UNCHANGED << grpIdx, loopcnt, logIndex, testPassed, gTestPassed, gAdcAppLog >>
    /\ UNCHANGED << tbCtrMode, tbClkSync, socAEn, nTrig, tbCtr, runTicks >>
    /\ UNCHANGED << cacheVars, adcVars, dmaVars >>

Dis2_Freeze ==
    /\ pc = "Dis2_Freeze"
    /\ UNCHANGED << testResultLog, errTrace, waited, cntAtStart, dmaArgs, mainRet, xcvrVars >>
    /\ tbCtrMode' = "STOP_FREEZE"
    /\ swTrace' = Append(swTrace, "freeze")
    /\ pc' = "Loop_DisableHwTrig"
    /\ UNCHANGED << grpIdx, loopcnt, logIndex, testPassed, gTestPassed, gAdcAppLog >>
    /\ UNCHANGED << tbClkSync, socAEn, socBEn, nTrig, tbCtr, runTicks >>
    /\ UNCHANGED << cacheVars, adcVars, dmaVars >>

Loop_DisableHwTrig ==
    /\ pc = "Loop_DisableHwTrig"
    /\ UNCHANGED << testResultLog, errTrace, waited, cntAtStart, dmaArgs, mainRet, xcvrVars >>
    /\ adcHwTrigEn' = FALSE
    /\ adcStatus' = [adcStatus EXCEPT ![ADC_APP_GROUP_ID] = "ADC_IDLE"]
    /\ swTrace' = Append(swTrace, "hwTrigOff")
    /\ grpIdx' = 0
    /\ pc' = "Loop_DisableNotif"
    /\ UNCHANGED << loopcnt, logIndex, testPassed, gTestPassed, gAdcAppLog >>
    /\ UNCHANGED << adcNotif, adcResultSet, adcBusy, adcResultReg >>
    /\ UNCHANGED << cacheVars, epwmVars, dmaVars >>

\* variant: the capture loop is left after its first iteration
Loop_DisableNotif_Break ==
    /\ pc = "Loop_DisableNotif"
    /\ UNCHANGED << testResultLog, errTrace, waited, cntAtStart, dmaArgs, mainRet, xcvrVars >>
    /\ adcNotif' = adcNotif \ {grpIdx}
    /\ swTrace' = Append(swTrace, "notifOff")
    /\ grpIdx' = grpIdx + 1
    /\ IF grpIdx + 1 < ADC_MAX_GROUP
         THEN pc' = "Loop_DisableNotif" /\ UNCHANGED loopcnt
         ELSE /\ loopcnt' = loopcnt + 1
              /\ pc' = "Test_Verdict"
    /\ UNCHANGED << logIndex, testPassed, gTestPassed, gAdcAppLog >>
    /\ UNCHANGED << adcHwTrigEn, adcStatus, adcResultSet, adcBusy, adcResultReg >>
    /\ UNCHANGED << cacheVars, epwmVars, dmaVars >>

Loop_DisableNotif ==
    /\ pc = "Loop_DisableNotif"
    /\ UNCHANGED << testResultLog, errTrace, waited, cntAtStart, dmaArgs, mainRet, xcvrVars >>
    /\ adcNotif' = adcNotif \ {grpIdx}
    /\ swTrace' = Append(swTrace, "notifOff")
    /\ grpIdx' = grpIdx + 1
    /\ IF grpIdx + 1 < ADC_MAX_GROUP
         THEN pc' = "Loop_DisableNotif" /\ UNCHANGED loopcnt
         ELSE /\ loopcnt' = loopcnt + 1
              /\ pc' = IF loopcnt + 1 < LoopCnt THEN "Loop_Memset" ELSE "Test_Verdict"
    /\ UNCHANGED << logIndex, testPassed, gTestPassed, gAdcAppLog >>
    /\ UNCHANGED << adcHwTrigEn, adcStatus, adcResultSet, adcBusy, adcResultReg >>
    /\ UNCHANGED << cacheVars, epwmVars, dmaVars >>

Test_Verdict ==
    /\ pc = "Test_Verdict"
    /\ UNCHANGED << testResultLog, errTrace, waited, cntAtStart, dmaArgs, mainRet, xcvrVars >>
    /\ gTestPassed' = IF testPassed # E_OK THEN E_NOT_OK ELSE gTestPassed
    /\ pc' = "DeInit_Verdict"
    /\ UNCHANGED << grpIdx, loopcnt, logIndex, testPassed, gAdcAppLog, swTrace >>
    /\ UNCHANGED << cacheVars, epwmVars, adcVars, dmaVars >>

(* ------------------------------------------------------------------ *)
(* Adc_appDeInit                                                       *)
(* ------------------------------------------------------------------ *)
\* variant: the corruption check result overwrites the verdict flag
DeInit_Verdict_Overwrite ==
    /\ pc = "DeInit_Verdict"
    /\ \E corruption \in {E_OK, E_NOT_OK} :
         /\ gTestPassed' = corruption
         /\ errTrace' = IF corruption # E_OK
                          THEN errTrace \cup {<< "Stack/section corruption" >>} ELSE errTrace
    /\ testResultLog' = Append(testResultLog,
                               IF E_OK = gTestPassed' THEN APP_UTILS_TEST_STATUS_PASS
                                                     ELSE APP_UTILS_TEST_STATUS_FAIL)
    /\ pc' = "DeInit_Adc"
    /\ UNCHANGED << grpIdx, loopcnt, logIndex, testPassed, gAdcAppLog, swTrace, waited, cntAtStart, dmaArgs, mainRet, xcvrVars >>
    /\ UNCHANGED << cacheVars, epwmVars, adcVars, dmaVars >>

DeInit_Verdict ==
    /\ pc = "DeInit_Verdict"
    /\ \E corruption \in {E_OK, E_NOT_OK} :
         /\ gTestPassed' = IF corruption # E_OK THEN E_NOT_OK ELSE gTestPassed
         /\ errTrace' = IF corruption # E_OK
                          THEN errTrace \cup {<< "Stack/section corruption" >>} ELSE errTrace
    /\ testResultLog' = Append(testResultLog,
                               IF E_OK = gTestPassed' THEN APP_UTILS_TEST_STATUS_PASS
                                                     ELSE APP_UTILS_TEST_STATUS_FAIL)
    /\ pc' = "DeInit_Adc"
    /\ UNCHANGED << grpIdx, loopcnt, logIndex, testPassed, gAdcAppLog, swTrace, waited, cntAtStart, dmaArgs, mainRet, xcvrVars >>
    /\ UNCHANGED << cacheVars, epwmVars, adcVars, dmaVars >>

DeInit_Adc ==
    /\ pc = "DeInit_Adc"
    /\ UNCHANGED << testResultLog, errTrace, waited, cntAtStart, dmaArgs, mainRet, xcvrVars >>
    /\ adcHwTrigEn' = FALSE
    /\ adcNotif' = {}
    /\ adcResultSet' = {}
    /\ adcStatus' = [g \in Groups |-> "ADC_IDLE"]
    /\ pc' = "DeInit_Dma"
    /\ UNCHANGED << grpIdx, loopcnt, logIndex, testPassed, gTestPassed, gAdcAppLog, swTrace >>
    /\ UNCHANGED << adcBusy, adcResultReg >>
    /\ UNCHANGED << cacheVars, epwmVars, dmaVars >>

DeInit_Dma ==
    /\ pc = "DeInit_Dma"
    /\ UNCHANGED << testResultLog, errTrace, waited, cntAtStart, dmaArgs, mainRet, xcvrVars >>
    /\ dmaInit' = FALSE
    /\ dmaChEnabled' = FALSE
    /\ dmaEvt' = FALSE
    /\ dmaParam' = NoParam
    /\ dmaOther' = NoOtherSlots
    /\ pc' = "DeInit_Platform"
    /\ UNCHANGED << grpIdx, loopcnt, logIndex, testPassed, gTestPassed, gAdcAppLog, swTrace >>
    /\ UNCHANGED << dmaLastDest, dmaCfgErr, dmaXfer, irqPending, irqRegistered, cbkRegistered, gAdcAppDmaCallbackCount,
                    cbkTmp, nCallbackCalls >>
    /\ UNCHANGED << cacheVars, epwmVars, adcVars >>

DeInit_Platform ==
    /\ pc = "DeInit_Platform"
    /\ UNCHANGED << testResultLog, errTrace, waited, cntAtStart, dmaArgs, mainRet, xcvrVars >>
    /\ pc' = "Main_Return"
    /\ UNCHANGED << grpIdx, loopcnt, logIndex, testPassed, gTestPassed, gAdcAppLog, swTrace >>
    /\ UNCHANGED << cacheVars, epwmVars, adcVars, dmaVars >>

(* ------------------------------------------------------------------ *)
(* main                                                                *)
(* ------------------------------------------------------------------ *)
\* variant: main returns the verdict
Main_Return_Verdict ==
    /\ pc = "Main_Return"
    /\ mainRet' = IF E_OK = gTestPassed THEN 0 ELSE 1
    /\ pc' = "Done"
    /\ UNCHANGED << testResultLog, errTrace, waited, cntAtStart, dmaArgs, xcvrVars >>
    /\ UNCHANGED << grpIdx, loopcnt, logIndex, testPassed, gTestPassed, gAdcAppLog, swTrace >>
    /\ UNCHANGED << cacheVars, epwmVars, adcVars, dmaVars >>

\* return 0; after the three calls
Main_Return ==
    /\ pc = "Main_Return"
    /\ mainRet' = 0
    /\ pc' = "Done"
    /\ UNCHANGED << testResultLog, errTrace, waited, cntAtStart, dmaArgs, xcvrVars >>
    /\ UNCHANGED << grpIdx, loopcnt, logIndex, testPassed, gTestPassed, gAdcAppLog, swTrace >>
    /\ UNCHANGED << cacheVars, epwmVars, adcVars, dmaVars >>

(* ------------------------------------------------------------------ *)
(* Hardware                                                            *)
(* ------------------------------------------------------------------ *)
\* the EPWM counter runs: clocked and not in stop-freeze
CounterRuns == tbClkSync /\ tbCtrMode = "UP"

\* counter reaches CMPA counting up: SOC-A pulse; the ADC starts a conversion
\* if hardware triggering is enabled and no conversion is in progress
HW_EpwmTrigger ==
    /\ CounterRuns
    /\ socAEn
    /\ nTrig < MaxTriggers
    /\ nTrig' = nTrig + 1
    /\ adcBusy' = IF adcHwTrigEn THEN TRUE ELSE adcBusy
    /\ UNCHANGED << tbCtrMode, tbClkSync, socAEn, socBEn, tbCtr, runTicks >>
    /\ UNCHANGED << adcHwTrigEn, adcNotif, adcStatus, adcResultSet, adcResultReg >>
    /\ UNCHANGED << swVars, cacheVars, dmaVars >>

\* nothing is pending between the sampler and the completion callback
PipelineIdle == ~adcBusy /\ ~dmaEvt /\ ~dmaXfer.active /\ ~irqPending /\ cbkTmp = -1

\* one tick of time passes while the software thread sits in AppUtils_delay: a running
\* counter advances and pulses SOC-A when it reaches compare A counting up; the
\* sampler, the engine and the callback take less than one trigger period
HW_Tick ==
    /\ pc = "Print_Delay"
    /\ waited < DelayTicks
    /\ waited' = waited + 1
    /\ cntAtStart' = IF runTicks = 0 THEN gAdcAppDmaCallbackCount ELSE cntAtStart
    /\ IF CounterRuns
         THEN /\ tbCtr' = (tbCtr + 1) % PeriodTicks
              /\ runTicks' = runTicks + 1
              /\ IF tbCtr' = CmpaTick /\ socAEn
                   THEN /\ PipelineIdle
                        /\ nTrig' = nTrig + 1
                        /\ adcBusy' = IF adcHwTrigEn THEN TRUE ELSE adcBusy
                   ELSE UNCHANGED << nTrig, adcBusy >>
         ELSE UNCHANGED << tbCtr, runTicks, nTrig, adcBusy >>
    /\ UNCHANGED << tbCtrMode, tbClkSync, socAEn, socBEn >>
    /\ UNCHANGED << adcHwTrigEn, adcNotif, adcStatus, adcResultSet, adcResultReg >>
    /\ UNCHANGED << pc, grpIdx, loopcnt, logIndex, testPassed, gTestPassed, gAdcAppLog,
                    testResultLog, errTrace, swTrace, dmaArgs, mainRet, xcvrVars >>
    /\ UNCHANGED << cacheVars, dmaVars >>

\* end of conversion: result register loaded, transfer request raised;
\* the request is taken only by a channel enabled for events
HW_AdcEoc ==
    /\ adcBusy
    /\ \E v \in SampleValues : adcResultReg' = v
    /\ adcBusy' = FALSE
    /\ dmaEvt' = IF dmaChEnabled THEN TRUE ELSE dmaEvt
    /\ UNCHANGED << adcHwTrigEn, adcNotif, adcStatus, adcResultSet >>
    /\ UNCHANGED << dmaLastDest, dmaCfgErr, dmaOther, dmaInit, dmaParam, dmaChEnabled, dmaXfer, irqPending, irqRegistered,
                    cbkRegistered, gAdcAppDmaCallbackCount,
                    cbkTmp, nCallbackCalls >>
    /\ UNCHANGED << swVars, cacheVars, epwmVars >>

\* the channel controller submits the transfer: source is read; a static descriptor is
\* left as it is, any other is advanced by its frame stride or, once exhausted, consumed
HW_DmaStart ==
    /\ dmaEvt
    /\ dmaChEnabled
    /\ dmaParam.set
    /\ ~dmaXfer.active
    /\ dmaEvt' = FALSE
    /\ dmaXfer' = [active |-> TRUE, val |-> adcResultReg, dest |-> dmaParam.destPtr,
                   bytes |-> dmaParam.aCnt, words |-> dmaParam.aCnt \div 2,
                   irq |-> dmaParam.tcinten]
    /\ dmaParam' = IF dmaParam.static THEN dmaParam
                   ELSE IF dmaParam.cCnt > 1
                          THEN [dmaParam EXCEPT !.destPtr = @ + (dmaParam.destCIdx \div 2),
                                                !.cCnt = @ - 1]
                          ELSE NoParam
    /\ UNCHANGED << dmaLastDest, dmaCfgErr, dmaOther, dmaInit, dmaChEnabled, irqPending, irqRegistered, cbkRegistered,
                    gAdcAppDmaCallbackCount,
                    cbkTmp, nCallbackCalls >>
    /\ UNCHANGED << swVars, cacheVars, epwmVars, adcVars >>

\* the transfer controller writes the destination in main memory; a write made while
\* the zero pattern is still dirty in the cache lands before the pattern does
HW_DmaComplete ==
    /\ dmaXfer.active
    /\ dmaBufMem' = [w \in BufWords |->
                       IF w >= dmaXfer.dest /\ w < dmaXfer.dest + dmaXfer.words
                         THEN dmaXfer.val ELSE dmaBufMem[w]]
    /\ engWr' = IF cacheValid /\ cacheDirty
                 THEN engWr
                 ELSE [w \in BufWords |->
                         IF w >= dmaXfer.dest /\ w < dmaXfer.dest + dmaXfer.words
                           THEN dmaXfer.val ELSE engWr[w]]
    /\ irqPending' = IF dmaXfer.irq THEN TRUE ELSE irqPending
    /\ dmaXfer' = NoXfer
    /\ dmaLastDest' = dmaXfer.dest
    /\ UNCHANGED << dmaCfgErr, dmaOther, dmaInit, dmaParam, dmaChEnabled, dmaEvt, irqRegistered, cbkRegistered,
                    gAdcAppDmaCallbackCount,
                    cbkTmp, nCallbackCalls >>
    /\ UNCHANGED << cacheValid, cacheDirty, cacheData >>
    /\ UNCHANGED << swVars, epwmVars, adcVars >>

\* variant: the callback also stops the channel (one-shot handling)
Adc_appDmaTransferCallback_Disarms ==
    /\ gAdcAppDmaCallbackCount' = gAdcAppDmaCallbackCount + 1
    /\ dmaChEnabled' = FALSE
    /\ UNCHANGED << dmaLastDest, dmaCfgErr, dmaOther, dmaInit, dmaParam, dmaEvt, dmaXfer, irqRegistered, cbkRegistered, cbkTmp >>
    /\ UNCHANGED << swVars, cacheVars, epwmVars, adcVars >>

\* gAdcAppDmaCallbackCount++ and return (uint32; the wrap at 2^32 is beyond the
\* triggers explored)
Adc_appDmaTransferCallback ==
    /\ gAdcAppDmaCallbackCount' = gAdcAppDmaCallbackCount + 1
    /\ UNCHANGED << dmaLastDest, dmaCfgErr, dmaOther, dmaInit, dmaParam, dmaChEnabled, dmaEvt, dmaXfer, irqRegistered,
                    cbkRegistered, cbkTmp >>
    /\ UNCHANGED << swVars, cacheVars, epwmVars, adcVars >>

\* completion interrupt: the master ISR runs and invokes the registered callback
HW_DmaIsr ==
    /\ irqPending
    /\ irqRegistered
    /\ irqPending' = FALSE
    /\ IF cbkRegistered
         THEN /\ Adc_appDmaTransferCallback
              /\ nCallbackCalls' = nCallbackCalls + 1
         ELSE /\ UNCHANGED << dmaLastDest, dmaCfgErr, dmaOther, dmaInit, dmaParam, dmaChEnabled, dmaEvt, dmaXfer, irqRegistered,
                              cbkRegistered, cbkTmp, gAdcAppDmaCallbackCount, nCallbackCalls >>
              /\ UNCHANGED << swVars, cacheVars, epwmVars, adcVars >>

\* the same interrupt with the callback's gAdcAppDmaCallbackCount++ in its two halves:
\* the master ISR invokes the callback, which loads the counter ...
\* variant: the completion interrupt is served again while a callback is in progress
Callback_Load_Nested ==
    /\ irqPending
    /\ irqRegistered
    /\ cbkRegistered
    /\ irqPending' = FALSE
    /\ cbkTmp' = gAdcAppDmaCallbackCount
    /\ nCallbackCalls' = nCallbackCalls + 1
    /\ UNCHANGED << dmaLastDest, dmaCfgErr, dmaOther, dmaInit, dmaParam, dmaChEnabled, dmaEvt, dmaXfer, irqRegistered,
                    cbkRegistered, gAdcAppDmaCallbackCount >>
    /\ UNCHANGED << swVars, cacheVars, epwmVars, adcVars >>

Callback_Load ==
    /\ irqPending
    /\ irqRegistered
    /\ cbkRegistered
    /\ cbkTmp = -1
    /\ irqPending' = FALSE
    /\ cbkTmp' = gAdcAppDmaCallbackCount
    /\ nCallbackCalls' = nCallbackCalls + 1
    /\ UNCHANGED << dmaLastDest, dmaCfgErr, dmaOther, dmaInit, dmaParam, dmaChEnabled, dmaEvt, dmaXfer, irqRegistered,
                    cbkRegistered, gAdcAppDmaCallbackCount >>
    /\ UNCHANGED << swVars, cacheVars, epwmVars, adcVars >>

\* ... and stores the loaded value plus one
Callback_Store ==
    /\ cbkTmp # -1
    /\ gAdcAppDmaCallbackCount' = cbkTmp + 1
    /\ cbkTmp' = -1
    /\ UNCHANGED << dmaLastDest, dmaCfgErr, dmaOther, dmaInit, dmaParam, dmaChEnabled, dmaEvt, dmaXfer, irqPending, irqRegistered,
                    cbkRegistered, nCallbackCalls >>
    /\ UNCHANGED << swVars, cacheVars, epwmVars, adcVars >>

\* the cache replaces the buffer's lines: a dirty copy is written to memory
HW_CacheEvict ==
    /\ cacheValid
    /\ dmaBufMem' = IF cacheDirty THEN cacheData ELSE dmaBufMem
    /\ cacheValid' = FALSE
    /\ cacheDirty' = FALSE
    /\ UNCHANGED << cacheData, engWr >>
    /\ UNCHANGED << swVars, epwmVars, adcVars, dmaVars >>

(* ------------------------------------------------------------------ *)
(* Specification                                                       *)
(* ------------------------------------------------------------------ *)
\* sampler, transfer engine and cache
Hardware_Chain ==
    \/ HW_AdcEoc
    \/ HW_DmaStart
    \/ HW_DmaComplete
    \/ HW_CacheEvict

\* hardware other than the completion interrupt
Hardware_Common ==
    \/ HW_EpwmTrigger
    \/ Hardware_Chain

Hardware ==
    \/ Hardware_Common
    \/ HW_DmaIsr

\* statements of Adc_appInit other than the call of Adc_Init
Adc_appInit_Common ==
    \/ Init_Platform
    \/ Init_Dma
    \/ Adc_appInterruptConfig
    \/ Init_CbkReg

Adc_appInit ==
    \/ Adc_appInit_Common
    \/ Init_Adc

Adc_appPrintResult ==
    \/ Print_Start
    \/ Print_CacheInv
    \/ Print_ReadBuf
    \/ Print_ReadHw
    \/ Print_Status
    \/ Print_Delay

Adc_appEpwmEnable ==
    \/ Epwm_TimeBase
    \/ Epwm_SocA
    \/ Epwm_SocB

Adc_appDisableTrigger(next) ==
    \/ Dis_SocA
    \/ Dis_SocB
    \/ Dis_Freeze(next)

Adc_appDisableTrigger_Again ==
    \/ Dis2_SocA
    \/ Dis2_SocB
    \/ Dis2_Freeze

Adc_appDeInit ==
    \/ DeInit_Verdict
    \/ DeInit_Adc
    \/ DeInit_Dma
    \/ DeInit_Platform

\* statements of Adc_appTest whose successor is the same in every variant of the loop body
Adc_appTest_Common ==
    \/ Setup_Status
    \/ Setup_Buffer
    \/ Loop_Memset
    \/ Loop_CacheWb
    \/ Loop_EnableNotif
    \/ Loop_EnableHwTrig
    \/ Dma_ParamSet
    \/ Adc_appEpwmEnable
    \/ Loop_CounterUp
    \/ Adc_appPrintResult
    \/ Loop_DisableHwTrig
    \/ Loop_DisableNotif
    \/ Test_Verdict

\* the arming order of the source: DMA configured and armed, then EPWM started
Adc_appTest ==
    \/ Adc_appTest_Common
    \/ Loop_IntCont("Dma_ParamSet")
    \/ Dma_EnableRegion("Epwm_TimeBase")
    \/ Loop_TbClkSync("Print_Start")
    \/ Adc_appDisableTrigger("Loop_DisableHwTrig")

Next ==
    \/ Adc_appInit
    \/ Adc_appTest
    \/ Adc_appDeInit
    \/ Main_Return
    \/ Hardware

Spec == Init /\ [][Next]_vars

\* the arming pair reordered: EPWM started first, DMA configured and armed after it
Adc_appTest_Reordered ==
    \/ Adc_appTest_Common
    \/ Loop_IntCont("Epwm_TimeBase")
    \/ Loop_TbClkSync("Dma_ParamSet")
    \/ Dma_EnableRegion("Print_Start")
    \/ Adc_appDisableTrigger("Loop_DisableHwTrig")

NextReordered ==
    \/ Adc_appInit
    \/ Adc_appTest_Reordered
    \/ Adc_appDeInit
    \/ Main_Return
    \/ Hardware

SpecReordered == Init /\ [][NextReordered]_vars

\* Adc_appDisableTrigger called twice in succession at the end of the poll loop
Adc_appTest_DisarmTwice ==
    \/ Adc_appTest_Common
    \/ Loop_IntCont("Dma_ParamSet")
    \/ Dma_EnableRegion("Epwm_TimeBase")
    \/ Loop_TbClkSync("Print_Start")
    \/ Adc_appDisableTrigger("Dis2_SocA")
    \/ Adc_appDisableTrigger_Again

NextDisarmTwice ==
    \/ Adc_appInit
    \/ Adc_appTest_DisarmTwice
    \/ Adc_appDeInit
    \/ Main_Return
    \/ Hardware

SpecDisarmTwice == Init /\ [][NextDisarmTwice]_vars

\* the program run against a driver whose groups may be busy at setup
Adc_appInit_NotIdle ==
    \/ Adc_appInit_Common
    \/ Init_Adc_NotIdle

NextSetupFault ==
    \/ Adc_appInit_NotIdle
    \/ Adc_appTest
    \/ Adc_appDeInit
    \/ Main_Return
    \/ Hardware

SpecSetupFault == Init /\ [][NextSetupFault]_vars

\* the callback's increment as a load and a store that interleave with everything else
NextCallbackSteps ==
    \/ Adc_appInit
    \/ Adc_appTest
    \/ Adc_appDeInit
    \/ Main_Return
    \/ Hardware_Common
    \/ Callback_Load
    \/ Callback_Store

SpecCallbackSteps == Init /\ [][NextCallbackSteps]_vars

\* the program under a clock: statements take no time, AppUtils_delay takes DelayTicks
\* ticks, triggers come from the running counter
Software ==
    \/ Adc_appInit
    \/ Adc_appTest
    \/ Adc_appDeInit
    \/ Main_Return

NextTimed ==
    \/ Software /\ (pc = "Print_Delay" => waited = DelayTicks)
    \/ HW_Tick
    \/ Hardware_Chain
    \/ HW_DmaIsr

SpecTimed == Init /\ [][NextTimed]_vars

\* the software thread keeps running: a statement that can execute eventually does
\* (AppUtils_delay returns); nothing is assumed of the hardware
SpecFair == Init /\ [][Next]_vars /\ WF_vars(Software)

\* the same program with Adc_appDmaConfigure called on any of its argument values
SpecConfigArgs == InitConfigArgs /\ [][Next]_vars


(* ------------------------------------------------------------------ *)
(* Helpers over the software trace of the current iteration            *)
(* ------------------------------------------------------------------ *)
Idx(op) == {i \in DOMAIN swTrace : swTrace[i] = op}
\* every occurrence of b has an earlier occurrence of a
Precedes(a, b) == \A j \in Idx(b) : \E i \in Idx(a) : i < j

(* ------------------------------------------------------------------ *)
(* C1: in the poll loop, every software read of the DMA buffer is      *)
(* immediately preceded by the invalidate of the whole buffer: the     *)
(* operation just before each read is the invalidate (no delay, no     *)
(* other read, no other tick in between), and when the read is about   *)
(* to execute no cached copy of the buffer exists.                     *)
(* ------------------------------------------------------------------ *)
C1_InvalidateBeforeRead ==
    /\ \A i \in Idx("read") : i > 1 /\ swTrace[i - 1] = "inv"
    /\ pc = "Print_ReadBuf" => (~cacheValid /\ swTrace[Len(swTrace)] = "inv")

C1_Witness ==
    /\ pc = "Print_ReadHw"
    /\ loopcnt = LoopCnt - 1
    /\ logIndex = LogSize - 1
    /\ Cardinality(Idx("read")) = LogSize

(* ------------------------------------------------------------------ *)
(* C2: in every capture iteration the buffer is zero-filled, then      *)
(* written back, and only then is the slot configured and armed; no    *)
(* software write to the buffer lies between the write-back and the    *)
(* arm, and nothing written is still only in the cache at the arm.     *)
(* ------------------------------------------------------------------ *)
C2_ZeroFlushThenArm ==
    /\ \A a \in Idx("paramSet") \cup Idx("arm") :
         \E k \in Idx("wb") :
           /\ k < a
           /\ \E j \in Idx("memset") : j < k
           /\ \A m \in Idx("memset") : ~(k < m /\ m < a)
    /\ pc \in {"Dma_ParamSet", "Dma_EnableRegion"} => ~cacheDirty

C2_Witness ==
    /\ pc = "Epwm_TimeBase"
    /\ loopcnt = LoopCnt - 1
    /\ Idx("arm") # {}
    /\ dmaChEnabled

(* ------------------------------------------------------------------ *)
(* C3: the value a poll tick stores in the log as dmaBuff is the       *)
(* content main memory holds for slot [0][0] at that read: after the   *)
(* flush and an engine write, invalidate-then-read returns the         *)
(* engine-written value, never the stale cached one.                   *)
(* ------------------------------------------------------------------ *)
C3_ReadSeesMemory ==
    [][(pc = "Print_ReadBuf" /\ pc' # "Print_ReadBuf")
         => gAdcAppLog'[logIndex].dmaBuff = dmaBufMem[BufIndex(0, 0)]]_vars

\* the first tick cached the zero-filled value, the engine then wrote a sample,
\* and the second tick reads the sample
C3_Witness ==
    /\ pc = "Print_ReadHw"
    /\ logIndex = 1
    /\ gAdcAppLog[0].dmaBuff = 0
    /\ gAdcAppLog[1].dmaBuff # 0
    /\ gAdcAppLog[1].dmaBuff = dmaBufMem[BufIndex(0, 0)]

(* ------------------------------------------------------------------ *)
(* C4: every software write to gAdcAppDmaBuffer (the per-iteration     *)
(* zero-fill) happens while the DMA channel is not enabled to respond  *)
(* to transfer requests.                                               *)
(* ------------------------------------------------------------------ *)
C4_NoWriteWhileArmed == pc = "Loop_Memset" => ~dmaChEnabled

(* ------------------------------------------------------------------ *)
(* C5: every write of the descriptor into its slot (Cdd_Dma_ParamSet)  *)
(* happens while the DMA channel is not enabled.                       *)
(* ------------------------------------------------------------------ *)
C5_NoDescriptorWriteWhileArmed == pc = "Dma_ParamSet" => ~dmaChEnabled


(* ------------------------------------------------------------------ *)
(* C6: in every iteration the arming steps run in the order: enable    *)
(* notifications for all groups, enable hardware triggering, configure *)
(* and arm the DMA slot, and last start the trigger generator; so the  *)
(* EPWM counter never runs while the slot has not been armed in that   *)
(* iteration.                                                          *)
(* ------------------------------------------------------------------ *)
StartOps == {"epwmTimeBase", "epwmSocA", "epwmSocB", "ctrUp", "clkSync"}

C6_ArmBeforeStart ==
    /\ \A j \in Idx("hwTrigOn") : Cardinality({i \in Idx("notifOn") : i < j}) = ADC_MAX_GROUP
    /\ Precedes("hwTrigOn", "paramSet")
    /\ Precedes("paramSet", "arm")
    /\ \A s \in StartOps : Precedes("arm", s)
    /\ Precedes("epwmSocB", "ctrUp") /\ Precedes("ctrUp", "clkSync")
    /\ CounterRuns => (dmaChEnabled /\ dmaParam.set /\ Idx("arm") # {}
                         /\ adcHwTrigEn /\ adcNotif = Groups)

\* a trigger has fired in the first iteration, with everything armed
C6_Witness ==
    /\ CounterRuns
    /\ loopcnt = 0
    /\ nTrig > 0
    /\ dmaChEnabled

(* ------------------------------------------------------------------ *)
(* C8: in every iteration the disarm steps run in the order: disable   *)
(* SOC-A, disable SOC-B, freeze the counter, then disable hardware     *)
(* triggering of the captured group, then disable the notifications of *)
(* all groups; and the first of them runs only after all poll ticks of *)
(* the iteration.                                                      *)
(* ------------------------------------------------------------------ *)
DisarmOps == {"socAOff", "socBOff", "freeze", "hwTrigOff", "notifOff"}

C8_DisarmOrder ==
    /\ Precedes("socAOff", "socBOff")
    /\ Precedes("socBOff", "freeze")
    /\ Precedes("freeze", "hwTrigOff")
    /\ Precedes("hwTrigOff", "notifOff")
    /\ \A d \in DisarmOps : \A j \in Idx(d) :
         Cardinality({i \in Idx("delay") : i < j}) = LogSize
    /\ pc = "Loop_DisableHwTrig" => (~socAEn /\ ~socBEn /\ tbCtrMode = "STOP_FREEZE")
    /\ pc = "Loop_DisableNotif" => ~adcHwTrigEn
    /\ (pc \in {"Loop_Memset", "Test_Verdict"} /\ loopcnt > 0)
         => Cardinality(Idx("notifOff")) = ADC_MAX_GROUP

C8_Witness ==
    /\ pc = "Test_Verdict"
    /\ loopcnt = LoopCnt
    /\ Idx("notifOff") # {}
    /\ adcNotif = {}

(* ------------------------------------------------------------------ *)
(* C9: at the end of the Disarmed phase of every iteration, and at the *)
(* end of Teardown, everything armed is disarmed: trigger generator    *)
(* stopped, hardware triggering disabled, notifications disabled for   *)
(* all groups, and the DMA channel no longer enabled for events.       *)
(* ------------------------------------------------------------------ *)
DisarmedPhaseEnd == (pc \in {"Loop_Memset", "Test_Verdict"} /\ loopcnt > 0) \/ pc = "Done"

C9_EverythingDisarmed ==
    DisarmedPhaseEnd =>
        /\ tbCtrMode = "STOP_FREEZE"
        /\ ~socAEn
        /\ ~socBEn
        /\ ~adcHwTrigEn
        /\ adcNotif = {}
        /\ ~dmaChEnabled

(* ------------------------------------------------------------------ *)
(* C10: once Adc_appDisableTrigger has returned, and until the next    *)
(* arm, no trigger pulse can occur and nothing new enters the          *)
(* trigger-convert-transfer chain: a conversion or transfer pending at *)
(* the disarm may still drain, so the number of pending chain items    *)
(* never grows and the chain stays empty once it is empty.             *)
(* ------------------------------------------------------------------ *)
Disarmed ==
    \/ Idx("freeze") # {}
    \/ loopcnt > 0 /\ Idx("arm") = {}

ChainPending ==
    (IF adcBusy THEN 1 ELSE 0) + (IF dmaEvt THEN 1 ELSE 0) + (IF dmaXfer.active THEN 1 ELSE 0)

InGap == CounterRuns /\ Idx("arm") = {}

AdcEocStep == adcBusy /\ ~adcBusy'

C7_GapTriggerLost ==
    [][/\ (InGap /\ AdcEocStep) =>
            /\ dmaEvt' = dmaEvt
            /\ dmaXfer' = dmaXfer
            /\ testPassed' = testPassed
            /\ gTestPassed' = gTestPassed
       /\ (CounterRuns /\ Idx("arm") # {} /\ AdcEocStep) => dmaEvt']_vars

(* ------------------------------------------------------------------ *)
(* C11: disarming (Adc_appDisableTrigger) is idempotent and safe in    *)
(* any state: when it is called a second time right after the first    *)
(* call, every step of the second call leaves the whole system state   *)
(* as it was (a no-op), whether or not a conversion or transfer is in  *)
(* flight; and no step of either call records an error, the first call *)
(* being made while armed, the second while not armed.                 *)
(* ------------------------------------------------------------------ *)
FirstDisarmCall == {"Dis_SocA", "Dis_SocB", "Dis_Freeze"}
SecondDisarmCall == {"Dis2_SocA", "Dis2_SocB", "Dis2_Freeze"}

C11_DisarmIdempotent ==
    [][/\ (pc \in SecondDisarmCall /\ pc' # pc) =>
            /\ UNCHANGED << cacheVars, epwmVars, adcVars, dmaVars >>
            /\ UNCHANGED << grpIdx, loopcnt, logIndex, testPassed, gTestPassed, gAdcAppLog,
                            testResultLog, errTrace >>
       /\ (pc \in FirstDisarmCall \cup SecondDisarmCall /\ pc' # pc) =>
            /\ testPassed' = testPassed
            /\ gTestPassed' = gTestPassed
            /\ ~socAEn'
       /\ pc \in SecondDisarmCall => (~socAEn /\ ~socBEn /\ tbCtrMode = "STOP_FREEZE")]_vars

\* both calls have returned while a transfer started before the first is in flight
C11_Witness ==
    /\ pc = "Loop_DisableHwTrig"
    /\ Cardinality(Idx("freeze")) = 2
    /\ dmaXfer.active
    /\ ~socAEn /\ ~socBEn /\ tbCtrMode = "STOP_FREEZE"

(* ------------------------------------------------------------------ *)
(* C12: the phases of the orchestrator occur only in the sequence      *)
(* Setup, then (Armed, Draining, Disarmed) repeated once per value of  *)
(* loopcnt from 0 to the loop bound ADC_APP_LOOPCNT = 10 (capped by    *)
(* MaxLoop), then Teardown: every change of phase is one of the        *)
(* allowed ones, Draining starts only when all arming steps of the     *)
(* same iteration have run, the next Armed phase starts only after a   *)
(* complete Disarmed phase with loopcnt advanced by one, and           *)
(* Adc_appDeInit starts only after the last Disarmed phase.            *)
(* ------------------------------------------------------------------ *)
ArmOps == {"memset", "wb", "notifOn", "hwTrigOn", "intCont", "paramSet", "arm",
           "epwmTimeBase", "epwmSocA", "epwmSocB", "ctrUp", "clkSync"}

PhaseOf(p) ==
    CASE p \in {"Init_Platform", "Init_Dma", "Init_Adc", "Init_IntCfg", "Init_CbkReg"} -> "Init"
      [] p \in {"Setup_Status", "Setup_Buffer"} -> "Setup"
      [] p \in {"Loop_Memset", "Loop_CacheWb", "Loop_EnableNotif", "Loop_EnableHwTrig",
                "Loop_IntCont", "Dma_ParamSet", "Dma_EnableRegion", "Epwm_TimeBase",
                "Epwm_SocA", "Epwm_SocB", "Loop_CounterUp", "Loop_TbClkSync"} -> "Armed"
      [] p \in {"Print_Start", "Print_CacheInv", "Print_ReadBuf", "Print_ReadHw",
                "Print_Status", "Print_Delay"} -> "Draining"
      [] p \in {"Dis_SocA", "Dis_SocB", "Dis_Freeze", "Loop_DisableHwTrig",
                "Loop_DisableNotif"} -> "Disarmed"
      [] p = "Test_Verdict" -> "TestEnd"
      [] OTHER -> "Teardown"

C12_PhaseSequence ==
    [][/\ ADC_APP_LOOPCNT = 10
       /\ PhaseOf(pc') # PhaseOf(pc) =>
            \/ PhaseOf(pc) = "Init" /\ PhaseOf(pc') = "Setup"
            \/ /\ PhaseOf(pc) = "Setup" /\ PhaseOf(pc') = "Armed"
               /\ pc' = "Loop_Memset" /\ loopcnt' = 0
            \/ /\ PhaseOf(pc) = "Armed" /\ PhaseOf(pc') = "Draining"
               /\ pc' = "Print_Start" /\ loopcnt' = loopcnt
               /\ \A op \in ArmOps : \E i \in DOMAIN swTrace' : swTrace'[i] = op
            \/ /\ PhaseOf(pc) = "Draining" /\ PhaseOf(pc') = "Disarmed"
               /\ pc' = "Dis_SocA" /\ loopcnt' = loopcnt
               /\ logIndex' = LogSize
            \/ /\ PhaseOf(pc) = "Disarmed" /\ PhaseOf(pc') = "Armed"
               /\ pc' = "Loop_Memset"
               /\ loopcnt' = loopcnt + 1 /\ loopcnt' < LoopCnt
               /\ \A op \in DisarmOps : \E i \in DOMAIN swTrace' : swTrace'[i] = op
            \/ /\ PhaseOf(pc) = "Disarmed" /\ PhaseOf(pc') = "TestEnd"
               /\ loopcnt' = loopcnt + 1 /\ loopcnt' = LoopCnt
               /\ \A op \in DisarmOps : \E i \in DOMAIN swTrace' : swTrace'[i] = op
            \/ /\ PhaseOf(pc) = "TestEnd" /\ PhaseOf(pc') = "Teardown"
               /\ pc' = "DeInit_Verdict" /\ loopcnt' = LoopCnt]_vars

\* the run has ended after all iterations
C12_Witness ==
    /\ pc = "Done"
    /\ loopcnt = LoopCnt
    /\ LoopCnt >= 2
    /\ Cardinality(Idx("notifOff")) = ADC_MAX_GROUP

(* ------------------------------------------------------------------ *)
(* C13: no detected error aborts the run. Whether or not Setup finds a *)
(* group not idle or a result-buffer setup fails, Setup goes through   *)
(* all groups and straight into the capture loop, the loop is left     *)
(* only after its last iteration, every iteration runs all of its      *)
(* arming, polling and disarming steps, the static verdict flag is     *)
(* written only after the loop, and the verdict is evaluated (logged)  *)
(* exactly once, in Adc_appDeInit after the last iteration.            *)
(* ------------------------------------------------------------------ *)
IterationInFull(tr) ==
    /\ \A op \in ArmOps \cup DisarmOps : \E i \in DOMAIN tr : tr[i] = op
    /\ Cardinality({i \in DOMAIN tr : tr[i] = "read"}) = LogSize

C13_NoAbortOnError ==
    [][/\ (PhaseOf(pc) = "Setup" /\ PhaseOf(pc') # "Setup") =>
            (pc' = "Loop_Memset" /\ grpIdx' = ADC_MAX_GROUP /\ loopcnt' = 0)
       /\ (PhaseOf(pc) = "Disarmed" /\ PhaseOf(pc') # "Disarmed") => IterationInFull(swTrace')
       /\ (pc # "Test_Verdict" /\ pc' = "Test_Verdict") => loopcnt' = LoopCnt
       /\ gTestPassed' # gTestPassed => pc \in {"Test_Verdict", "DeInit_Verdict"}
       /\ testResultLog' # testResultLog =>
            /\ pc = "DeInit_Verdict"
            /\ loopcnt = LoopCnt
            /\ testResultLog = << >>
            /\ Len(testResultLog') = 1]_vars

\* a run in which Setup recorded an error has completed all iterations
C13_Witness ==
    /\ pc = "Done"
    /\ testPassed = E_NOT_OK
    /\ loopcnt = LoopCnt
    /\ testResultLog = << APP_UTILS_TEST_STATUS_FAIL >>

SetupErrors == {e \in errTrace : Len(e) = 2}

C15_VerdictIffNoError ==
    /\ Len(testResultLog) <= 1
    /\ PhaseOf(pc) = "Teardown" /\ pc # "DeInit_Verdict" => Len(testResultLog) = 1
    /\ testResultLog # << >> =>
         (testResultLog[1] = APP_UTILS_TEST_STATUS_PASS <=> errTrace = {})
    /\ testResultLog # << >> =>
         (testResultLog[1] = APP_UTILS_TEST_STATUS_FAIL <=> errTrace # {})
    /\ testPassed = E_NOT_OK <=> SetupErrors # {}
    /\ gTestPassed = E_NOT_OK <=>
         \/ SetupErrors # {} /\ PhaseOf(pc) = "Teardown"
         \/ << "Stack/section corruption" >> \in errTrace
    /\ \A g \in Groups :
         << "ADC Group is not IDLE", g >> \in errTrace
            => (g < grpIdx \/ PhaseOf(pc) # "Setup" \/ pc = "Setup_Buffer")

\* Setup found no error, the corruption check at Teardown failed: the verdict is FAIL
C15_Witness ==
    /\ pc = "Done"
    /\ testPassed = E_OK
    /\ errTrace = {<< "Stack/section corruption" >>}
    /\ testResultLog = << APP_UTILS_TEST_STATUS_FAIL >>

(* ------------------------------------------------------------------ *)
(* C16: gAdcAppDmaCallbackCount is written only by the completion      *)
(* callback and only by incrementing: every step that changes it is    *)
(* the service of a pending completion interrupt with the callback     *)
(* registered and raises it by exactly one, so it never decreases; and *)
(* no step of the software thread (Setup, Armed, Draining, Disarmed,   *)
(* Teardown) changes it.                                               *)
(* ------------------------------------------------------------------ *)
C16_CounterOnlyIncremented ==
    [][/\ gAdcAppDmaCallbackCount' # gAdcAppDmaCallbackCount =>
            /\ gAdcAppDmaCallbackCount' = gAdcAppDmaCallbackCount + 1
            /\ irqPending /\ ~irqPending'
            /\ irqRegistered /\ cbkRegistered
            /\ UNCHANGED swVars
       /\ gAdcAppDmaCallbackCount' >= gAdcAppDmaCallbackCount
       /\ pc' # pc => gAdcAppDmaCallbackCount' = gAdcAppDmaCallbackCount]_vars

\* the count of the first iteration is still there when the second one polls
C16_Witness ==
    /\ gAdcAppDmaCallbackCount = MaxTriggers
    /\ MaxTriggers >= 2
    /\ loopcnt >= 1
    /\ PhaseOf(pc) = "Draining"
    /\ nTrig = MaxTriggers

(* ------------------------------------------------------------------ *)
(* C17: each completion event raises the counter by exactly one, and   *)
(* no increment is lost or doubled under any interleaving of the       *)
(* callback with the software thread and the hardware: with the        *)
(* callback's increment taken as a load followed by a store, the       *)
(* counter equals the number of callback invocations whenever no       *)
(* callback is in progress, and is exactly one behind while one is.    *)
(* ------------------------------------------------------------------ *)
C17_CounterEqualsInvocations ==
    /\ cbkTmp = -1 => gAdcAppDmaCallbackCount = nCallbackCalls
    /\ cbkTmp # -1 => (cbkTmp = gAdcAppDmaCallbackCount /\ nCallbackCalls = cbkTmp + 1)
    /\ nCallbackCalls <= nTrig

\* the second callback is between its load and its store while the thread is polling
C17_Witness ==
    /\ cbkTmp = 1
    /\ nCallbackCalls = 2
    /\ pc = "Print_ReadBuf"
    /\ irqPending = FALSE

(* ------------------------------------------------------------------ *)
(* C18: once the system has been armed and the trigger generator has   *)
(* run for a duration D of at least 10 trigger periods P, the number   *)
(* of completions counted since the start of that run is at least      *)
(* floor(D/P) - 1 and at most ceil(D/P) + 1, at every such D up to the *)
(* disarm.                                                             *)
(* ------------------------------------------------------------------ *)
CounterIncrease == gAdcAppDmaCallbackCount - cntAtStart

InRun ==
    \/ PhaseOf(pc) = "Draining"
    \/ pc \in {"Dis_SocA", "Dis_SocB", "Dis_Freeze"}

C18_CompletionsPerPeriod ==
    (InRun /\ runTicks >= 10 * PeriodTicks) =>
        /\ CounterIncrease >= (runTicks \div PeriodTicks) - 1
        /\ CounterIncrease <= ((runTicks + PeriodTicks - 1) \div PeriodTicks) + 1

\* the last run is over and has counted one completion per trigger
C18_Witness ==
    /\ pc = "Dis_SocA"
    /\ loopcnt = LoopCnt - 1
    /\ runTicks = LogSize * DelayTicks
    /\ runTicks >= 10 * PeriodTicks
    /\ CounterIncrease = runTicks \div PeriodTicks
    /\ PipelineIdle

(* ------------------------------------------------------------------ *)
(* C19: the completion notifier is registered before the transfer      *)
(* engine is ever armed: the interrupt handler and then the            *)
(* application callback are registered in Adc_appInit, both are        *)
(* registered whenever the thread is past Adc_appInit, and the channel *)
(* is never enabled, no transfer is ever requested, in flight or       *)
(* completed, and no callback ever runs, while either is unregistered. *)
(* ------------------------------------------------------------------ *)
C19_RegisteredBeforeArm ==
    /\ irqRegistered <=> pc \notin {"Init_Platform", "Init_Dma", "Init_Adc", "Init_IntCfg"}
    /\ cbkRegistered <=> PhaseOf(pc) # "Init"
    /\ cbkRegistered => irqRegistered
    /\ (dmaChEnabled \/ dmaEvt \/ dmaXfer.active \/ irqPending \/ nCallbackCalls > 0)
         => (irqRegistered /\ cbkRegistered)

\* a completion interrupt is pending in the first iteration, the notifier registered
C19_Witness ==
    /\ irqPending
    /\ irqRegistered /\ cbkRegistered
    /\ loopcnt = 0
    /\ gAdcAppDmaCallbackCount = 0
    /\ dmaChEnabled

(* ------------------------------------------------------------------ *)
(* C20: the only side effect of one invocation of                      *)
(* Adc_appDmaTransferCallback is the increment of the completion       *)
(* counter: the step in which the callback runs raises the counter by  *)
(* one and leaves the destination buffer (in memory and in the cache), *)
(* the log, the verdict flags, the position of the thread and all      *)
(* arming state unchanged; and the callback waits for nothing: it can  *)
(* run whenever a completion interrupt is pending.                     *)
(* ------------------------------------------------------------------ *)
C20_CallbackFrame ==
    [][/\ nCallbackCalls' # nCallbackCalls =>
            /\ nCallbackCalls' = nCallbackCalls + 1
            /\ gAdcAppDmaCallbackCount' = gAdcAppDmaCallbackCount + 1
            /\ UNCHANGED << dmaBufMem, cacheValid, cacheDirty, cacheData >>
            /\ UNCHANGED << pc, grpIdx, loopcnt, logIndex, gAdcAppLog, testPassed, gTestPassed,
                            testResultLog, errTrace >>
            /\ UNCHANGED << tbCtrMode, tbClkSync, socAEn, socBEn, adcHwTrigEn, adcNotif,
                            adcStatus, adcResultSet >>
            /\ UNCHANGED << dmaLastDest, dmaCfgErr, dmaOther, dmaInit, dmaParam, dmaChEnabled, dmaEvt, dmaXfer, irqRegistered,
                            cbkRegistered >>
       /\ (irqPending /\ irqRegistered /\ cbkRegistered) => ENABLED HW_DmaIsr]_vars

\* the callback has run while the system is armed and a further transfer is in flight
C20_Witness ==
    /\ gAdcAppDmaCallbackCount = 1
    /\ nCallbackCalls = 1
    /\ dmaChEnabled /\ CounterRuns
    /\ dmaXfer.active
    /\ PhaseOf(pc) = "Draining"

(* ------------------------------------------------------------------ *)
(* C21: with the static option set, a transfer neither advances nor    *)
(* consumes the descriptor: whenever the slot holds a descriptor it is *)
(* the one Adc_appDmaConfigure wrote, every step that starts or        *)
(* completes a transfer leaves the slot as it was, every transfer is   *)
(* directed at slot [0][0] of the buffer, and its completion writes    *)
(* the sample there, over the previous one, and nowhere else.          *)
(* ------------------------------------------------------------------ *)
C21_StaticDescriptor ==
    [][ /\ dmaParam.set => dmaParam = edmaParam
        /\ dmaXfer' # dmaXfer => dmaParam' = dmaParam
        /\ dmaXfer'.active => (dmaXfer'.dest = BufIndex(0, 0) /\ dmaXfer'.words = 1)
        /\ (dmaXfer.active /\ ~dmaXfer'.active) =>
             dmaBufMem' = [dmaBufMem EXCEPT ![BufIndex(0, 0)] = dmaXfer.val] ]_vars

\* two transfers have completed and the slot still holds the descriptor
C21_Witness ==
    /\ gAdcAppDmaCallbackCount = 2
    /\ loopcnt = 0
    /\ dmaParam = edmaParam
    /\ dmaBufMem[BufIndex(0, 0)] \in SampleValues

(* ------------------------------------------------------------------ *)
(* C22 as claimed: the destination stride advances the write cursor by *)
(* one sample slot per completion: each completion of the descriptor   *)
(* after its first lands one slot after the one before it, wrapping at *)
(* the end of the buffer.                                              *)
(* ------------------------------------------------------------------ *)
C22_StrideAdvancesCursor ==
    [][ (dmaXfer.active /\ ~dmaXfer'.active /\ dmaLastDest # -1) =>
          dmaXfer.dest = (dmaLastDest + 1) % Cardinality(BufWords) ]_vars

(* ------------------------------------------------------------------ *)
(* C22 as amended: the destination stride of the descriptor is one     *)
(* sample slot, but it is never applied: each completion of the        *)
(* descriptor after its first lands on the slot of the one before it,  *)
(* and the slot's cursor (its destination pointer) never moves.        *)
(* ------------------------------------------------------------------ *)
C22_StrideNotApplied ==
    [][ /\ dmaParam.set => dmaParam.destCIdx = SampleBytes
        /\ (dmaXfer.active /\ ~dmaXfer'.active /\ dmaLastDest # -1) =>
             dmaXfer.dest = dmaLastDest
        /\ (dmaParam.set /\ dmaParam'.set) => dmaParam'.destPtr = dmaParam.destPtr ]_vars

\* a second transfer of the descriptor is in flight, bound for the slot of the first
C22_Witness ==
    /\ dmaLastDest = BufIndex(0, 0)
    /\ dmaXfer.active
    /\ dmaXfer.dest = dmaLastDest
    /\ Cardinality(BufWords) > 1

(* ------------------------------------------------------------------ *)
(* C23: the engine never writes outside gAdcAppDmaBuffer[0]: every     *)
(* transfer moves A-count = number of channels x 2 bytes, the bytes it *)
(* writes, from its destination on, lie inside the bytes of row 0 of   *)
(* the buffer, and its completion changes no word of any other row.    *)
(* ------------------------------------------------------------------ *)
Row0Words == {BufIndex(0, i) : i \in 0 .. (ADC_APP_READ_BUF_SIZE_WORD - 1)}

C23_WriteInsideBuffer ==
    [][ /\ dmaXfer'.active =>
             /\ dmaXfer'.bytes = ADC_APP_NUM_CHANNEL * SampleBytes
             /\ SampleBytes * dmaXfer'.dest >= SampleBytes * BufIndex(0, 0)
             /\ SampleBytes * dmaXfer'.dest + dmaXfer'.bytes
                  <= SampleBytes * (BufIndex(0, 0) + ADC_APP_READ_BUF_SIZE_WORD)
        /\ (dmaXfer.active /\ ~dmaXfer'.active) =>
             \A w \in BufWords \ Row0Words : dmaBufMem'[w] = dmaBufMem[w] ]_vars

\* a transfer is in flight in the last iteration and another row of the buffer exists
C23_Witness ==
    /\ dmaXfer.active
    /\ dmaXfer.bytes = ADC_APP_NUM_CHANNEL * SampleBytes
    /\ loopcnt = LoopCnt - 1
    /\ pc = "Print_Delay"
    /\ BufWords \ Row0Words # {}

(* ------------------------------------------------------------------ *)
(* C24: round trip through the coherency gate: once software has       *)
(* written the zero pattern to the whole buffer and the pattern has    *)
(* been flushed, a read of the buffer that follows the invalidate      *)
(* returns, for every word the engine has overwritten since, the       *)
(* engine's latest value, and the zero pattern for every other word;   *)
(* the value logged is that of slot [0][0].                            *)
(* ------------------------------------------------------------------ *)
C24_RoundTrip ==
    [][ (pc = "Print_ReadBuf" /\ pc' = "Print_ReadHw") =>
          /\ "wb" \in {swTrace[i] : i \in DOMAIN swTrace}
          /\ swTrace[Len(swTrace)] = "inv"
          /\ \A w \in BufWords :
               cacheData'[w] = IF engWr[w] # -1 THEN engWr[w] ELSE ZeroBuf[w]
          /\ gAdcAppLog'[logIndex].dmaBuff = cacheData'[BufIndex(0, 0)] ]_vars

\* a read has returned the engine's sample for slot [0][0] and zero for another group's slot
C24_Witness ==
    /\ pc = "Print_ReadHw"
    /\ engWr[BufIndex(0, 0)] \in SampleValues
    /\ gAdcAppLog[logIndex].dmaBuff = engWr[BufIndex(0, 0)]
    /\ \E g \in Groups \ {0} : engWr[BufIndex(g, 0)] = -1 /\ cacheData[BufIndex(g, 0)] = 0

(* ------------------------------------------------------------------ *)
(* C25 as claimed: the log is append-only over the whole run: an entry *)
(* of gAdcAppLog that holds a record (from this iteration or from an   *)
(* earlier one) is never changed by any later step.                    *)
(* ------------------------------------------------------------------ *)
HoldsRecord(i) == loopcnt >= 1 \/ i < logIndex

C25_LogNeverMutated ==
    [][ \A i \in DOMAIN gAdcAppLog :
          HoldsRecord(i) => gAdcAppLog'[i] = gAdcAppLog[i] ]_vars

(* ------------------------------------------------------------------ *)
(* C25 as amended: the log is append-only within one iteration: once   *)
(* poll tick i has written entry i, no step changes the entry before   *)
(* the next iteration's poll loop starts; only steps of the poll loop  *)
(* write the log, and a later iteration writes its records over those  *)
(* of the one before.                                                  *)
(* ------------------------------------------------------------------ *)
C25_LogAppendOnlyPerIteration ==
    [][ /\ \A i \in DOMAIN gAdcAppLog :
             i < logIndex => gAdcAppLog'[i] = gAdcAppLog[i]
        /\ gAdcAppLog' # gAdcAppLog =>
             pc \in {"Print_ReadBuf", "Print_ReadHw", "Print_Status"} ]_vars

\* second iteration, last tick: the entries before it hold this iteration's records
C25_Witness ==
    /\ loopcnt = 1
    /\ pc = "Print_Delay"
    /\ logIndex = LogSize - 1
    /\ logIndex > 0
    /\ gAdcAppLog[0].status = "ADC_BUSY"
    /\ gAdcAppLog[0].hwResult \in SampleValues

(* ------------------------------------------------------------------ *)
(* C26: the orchestrator never waits for a transfer: whatever the      *)
(* hardware does (any number of triggers and completions, none at      *)
(* all, at any moment), the run makes exactly ADC_APP_LOG_SIZE = 10    *)
(* poll ticks in each iteration, exactly ADC_APP_LOOPCNT = 10          *)
(* iterations, and then goes through Teardown and terminates.          *)
(* ------------------------------------------------------------------ *)
C26_RunTerminates ==
    /\ [](ADC_APP_LOG_SIZE = 10 /\ ADC_APP_LOOPCNT = 10)
    /\ [](pc = "Dis_SocA" => Cardinality(Idx("delay")) = LogSize)
    /\ [](pc = "Done" => loopcnt = LoopCnt)
    /\ [](pc # "Done" => ENABLED Software)
    /\ <>(pc = "Done")

\* a run in which the hardware never produced a trigger has terminated
C26_Witness ==
    /\ pc = "Done"
    /\ loopcnt = LoopCnt
    /\ logIndex = LogSize
    /\ nTrig = 0
    /\ gAdcAppDmaCallbackCount = 0


(* ------------------------------------------------------------------ *)
(* Adc_appDmaConfigure as a function of its arguments                  *)
(* ------------------------------------------------------------------ *)
\* the slot of a channel: its descriptor and its event enable
SlotParam(ch) == IF ch = ADC_APP_DMA_CHANNEL THEN dmaParam ELSE dmaOther[ch].param
SlotArmed(ch) == IF ch = ADC_APP_DMA_CHANNEL THEN dmaChEnabled ELSE dmaOther[ch].enabled
\* invalid arguments: a slot index out of range, or a zero count
InvalidArgs == dmaArgs.dmaCh \notin DmaChannels \/ dmaArgs.length = 0

C28_ValidConfigureArms ==
    [][ (~InvalidArgs /\ pc' # pc) =>
          /\ pc = "Dma_ParamSet" =>
                /\ ~dmaCfgErr'
                /\ SlotParam(dmaArgs.dmaCh)'.set
                /\ SlotParam(dmaArgs.dmaCh)'.aCnt = dmaArgs.length
          /\ pc = "Dma_EnableRegion" =>
                /\ ~dmaCfgErr'
                /\ SlotParam(dmaArgs.dmaCh)'.set
                /\ SlotArmed(dmaArgs.dmaCh)'
                /\ swTrace' = Append(swTrace, "arm")
                /\ dmaArgs = AppDmaArgs =>
                      /\ dmaParam'.aCnt = 2 /\ dmaParam'.bCnt = 1 /\ dmaParam'.cCnt = 1
                      /\ dmaChEnabled'
      ]_vars

\* the call of Adc_appTest has configured and armed channel 0 in the first iteration
C28_Witness ==
    /\ dmaArgs = AppDmaArgs
    /\ loopcnt = 0
    /\ Len(swTrace) > 1
    /\ swTrace[Len(swTrace)] = "arm"
    /\ swTrace[Len(swTrace) - 1] = "paramSet"
    /\ ~dmaCfgErr
    /\ dmaChEnabled
    /\ dmaParam.set /\ dmaParam.aCnt = 2 /\ dmaParam.bCnt = 1 /\ dmaParam.cCnt = 1

(* ------------------------------------------------------------------ *)
(* C29: main returns 0 in every run, whatever the verdict: the value   *)
(* returned is the same when the verdict is PASS and when it is FAIL,  *)
(* and the verdict shows only in the logged test-result status, which  *)
(* follows gTestPassed.                                                *)
(* ------------------------------------------------------------------ *)
C29_MainReturnsZero ==
    /\ mainRet \in {-1, 0}
    /\ pc = "Done" <=> mainRet = 0
    /\ pc = "Done" =>
          /\ Len(testResultLog) = 1
          /\ testResultLog[1] = IF E_OK = gTestPassed THEN APP_UTILS_TEST_STATUS_PASS
                                                      ELSE APP_UTILS_TEST_STATUS_FAIL

\* a run whose verdict is FAIL has returned 0
C29_Witness ==
    /\ pc = "Done"
    /\ mainRet = 0
    /\ gTestPassed = E_NOT_OK
    /\ testResultLog = << APP_UTILS_TEST_STATUS_FAIL >>

(* ------------------------------------------------------------------ *)
(* C30: within one iteration the log is filled in poll order, one      *)
(* record per poll tick: tick i writes entry i and only entry i, the   *)
(* three fields of entry i (buffered value, direct hardware value,     *)
(* sampler status) are all sampled during tick i, after the            *)
(* invalidate and before the delay of that tick, the index moves from  *)
(* 0 upwards one by one, and no entry is accessed at an index that     *)
(* reaches the capacity ADC_APP_LOG_SIZE.                              *)
(* ------------------------------------------------------------------ *)
PollWrites == {"Print_ReadBuf", "Print_ReadHw", "Print_Status"}

C30_LogInPollOrder ==
    [][ /\ LogSize <= ADC_APP_LOG_SIZE
        /\ (pc \in PollWrites /\ pc' # pc) =>
              /\ logIndex \in 0 .. (LogSize - 1)
              /\ logIndex' = logIndex
              /\ \A i \in DOMAIN gAdcAppLog : i # logIndex => gAdcAppLog'[i] = gAdcAppLog[i]
        /\ gAdcAppLog' # gAdcAppLog => pc \in PollWrites
        /\ (pc = "Print_ReadBuf" /\ pc' # pc) => gAdcAppLog'[logIndex].dmaBuff = CpuReadBuf[BufIndex(0, 0)]
        /\ (pc = "Print_ReadHw" /\ pc' # pc) => gAdcAppLog'[logIndex].hwResult = adcResultReg
        /\ (pc = "Print_Status" /\ pc' # pc) => gAdcAppLog'[logIndex].status = adcStatus[0]
        /\ logIndex' # logIndex =>
              \/ pc = "Print_Start" /\ logIndex' = 0
              \/ pc = "Print_Delay" /\ logIndex' = logIndex + 1
        /\ (pc = "Print_Delay" /\ pc' # pc) =>
              /\ Cardinality(Idx("delay")) = logIndex
              /\ Len(swTrace) >= 4
              /\ SubSeq(swTrace, Len(swTrace) - 3, Len(swTrace)) = << "inv", "read", "readHw", "status" >>
      ]_vars

\* the last tick of an iteration has filled the last entry with a captured sample
C30_Witness ==
    /\ pc = "Print_Delay"
    /\ logIndex = LogSize - 1
    /\ logIndex > 0
    /\ Cardinality(Idx("status")) = LogSize
    /\ gAdcAppLog[logIndex].dmaBuff \in SampleValues
    /\ gAdcAppLog[logIndex].hwResult \in SampleValues
    /\ gAdcAppLog[0].dmaBuff = 0

(* ------------------------------------------------------------------ *)
(* C31: every buffered value logged in iteration k is zero or a sample *)
(* of a trigger fired after the trigger generator was started in       *)
(* iteration k; no sample of an earlier iteration, a transfer still in *)
(* flight when the previous iteration was disarmed included, appears   *)
(* in the buffer after the zero-fill and write-back of iteration k.    *)
(* Between that write-back and the start of the trigger generator no   *)
(* trigger of iteration k exists, so there the buffer must hold zeros. *)
(* ------------------------------------------------------------------ *)
BeforeGeneratorStart == Idx("wb") # {} /\ Idx("ctrUp") = {} /\ Idx("clkSync") = {}

C31_NoStaleSample ==
    (loopcnt >= 1 /\ loopcnt < LoopCnt /\ BeforeGeneratorStart /\ ~CounterRuns)
        => /\ dmaBufMem[BufIndex(0, 0)] = 0
           /\ CpuReadBuf[BufIndex(0, 0)] = 0

(* ------------------------------------------------------------------ *)
(* C32: the poll loop of Adc_appPrintResult writes only log records:   *)
(* no statement of it stores to the destination buffer (in memory or   *)
(* through the cache), changes the completion counter, the verdict     *)
(* flags or any arming state, and its cache invalidate leaves the log  *)
(* records written so far in the iteration as they are.                *)
(* ------------------------------------------------------------------ *)
PollLabels == {"Print_Start", "Print_CacheInv", "Print_ReadBuf", "Print_ReadHw",
               "Print_Status", "Print_Delay"}
ArmingState == << tbCtrMode, tbClkSync, socAEn, socBEn, adcHwTrigEn, adcNotif,
                  dmaChEnabled, dmaParam, dmaOther, irqRegistered, cbkRegistered >>

C32_PollLoopReadOnly ==
    [][ (pc \in PollLabels /\ pc' # pc) =>
          /\ dmaBufMem' = dmaBufMem
          /\ (cacheDirty' => cacheDirty)
          /\ gAdcAppDmaCallbackCount' = gAdcAppDmaCallbackCount
          /\ testPassed' = testPassed /\ gTestPassed' = gTestPassed
          /\ testResultLog' = testResultLog
          /\ ArmingState' = ArmingState
          /\ pc \notin PollWrites => gAdcAppLog' = gAdcAppLog
      ]_vars

\* the invalidate of a later tick has run with a captured sample in the first record,
\* the channel armed and a completion counted
C32_Witness ==
    /\ pc = "Print_ReadBuf"
    /\ logIndex >= 1
    /\ swTrace[Len(swTrace)] = "inv"
    /\ gAdcAppLog[0].dmaBuff \in SampleValues
    /\ dmaChEnabled
    /\ gAdcAppDmaCallbackCount > 0

(* ================================================================== *)
(* mcan_transceiver.c: IO expander set-up over I2C (TCA6424 package)   *)
(* ================================================================== *)
IO_MUX_MCAN_SEL == 4
IO_MUX_MCAN_STB == 17
TCA6424_REG_OUTPUT_PORT_0 == 4
TCA6424_REG_CONFIG_PORT_0 == 12
TCA6424_MODE_INPUT == 0
TCA6424_MODE_OUTPUT == 1
TCA6424_OUT_STATE_LOW == 0
TCA6424_OUT_STATE_HIGH == 1
TCA6424_IO_MUX_MCAN_SEL_PORT_LINE_STATE == TCA6424_OUT_STATE_LOW
TCA6424_IO_MUX_MCAN_STB_PORT_LINE_STATE == TCA6424_OUT_STATE_HIGH
\* uint32 numIo = 24
numIo == 24
\* uint8: the element type of txBufferIomux and rxBufferIomux
UINT8_MAX == 255

\* ioIndex values explored for a direct call: all valid ones and the first invalid ones
MaxIoIndex == 25
IoIndexValues == 0 .. MaxIoIndex
\* a register of the expander may hold any byte
RegValues == 0 .. UINT8_MAX

\* everything of AdcApp.c: untouched by mcan_transceiver.c
adcAppVars == << pc, grpIdx, loopcnt, logIndex, testPassed, gTestPassed, gAdcAppLog,
                 testResultLog, errTrace, swTrace, waited, cntAtStart, dmaArgs, mainRet,
                 cacheVars, epwmVars, adcVars, dmaVars >>
callVars == << nCalls, callNo, fn, ioIndex, ioArg, callLog >>

(* ------------------------------------------------------------------ *)
(* Integer operators of C on the values that occur                     *)
(* ------------------------------------------------------------------ *)
\* bit i of x, two's complement for a negative x
Bit(x, i) == (x \div (2 ^ i)) % 2
\* 0x01 << portPin
Shl1(portPin) == 2 ^ portPin
\* ~x on int
BitNot(x) == (0 - x) - 1
\* the low byte of a | b and of a & b: what a store to a uint8 keeps
RECURSIVE OrBits(_, _, _)
OrBits(a, b, i) ==
    IF i > 7 THEN 0
    ELSE (IF Bit(a, i) = 1 \/ Bit(b, i) = 1 THEN 2 ^ i ELSE 0) + OrBits(a, b, i + 1)
RECURSIVE AndBits(_, _, _)
AndBits(a, b, i) ==
    IF i > 7 THEN 0
    ELSE (IF Bit(a, i) = 1 /\ Bit(b, i) = 1 THEN 2 ^ i ELSE 0) + AndBits(a, b, i + 1)
Uint8Or(a, b) == OrBits(a, b, 0)
Uint8And(a, b) == AndBits(a, b, 0)

\* port = ioIndex >> 3, portPin = ioIndex & 0x07
PortOf(io) == io \div 8
PortPinOf(io) == io % 8
\* base register of the function: output port 0 or configuration port 0
RegBase(f) == IF f = "setOutput" THEN TCA6424_REG_OUTPUT_PORT_0 ELSE TCA6424_REG_CONFIG_PORT_0
\* the constant the argument is compared with: HIGH in setOutput, INPUT in config
SetsBit(f, arg) == IF f = "setOutput" THEN TCA6424_OUT_STATE_HIGH = arg
                                      ELSE TCA6424_MODE_INPUT = arg

\* variant: the whole port is written with the pin's bit alone
ModifiedByte_WholePort(f, arg, portPin, r) ==
    IF SetsBit(f, arg) THEN Shl1(portPin) ELSE 0

\* txBufferIomux[1] = rxBufferIomux[0] | (0x01 << portPin), or & ~(0x01 << portPin)
ModifiedByte(f, arg, portPin, r) ==
    IF SetsBit(f, arg) THEN Uint8Or(r, Shl1(portPin))
                       ELSE Uint8And(r, BitNot(Shl1(portPin)))

(* ------------------------------------------------------------------ *)
(* TCA6424_setOutput and TCA6424_config: the two functions have the    *)
(* same statements, with their own base register and comparison        *)
(* ------------------------------------------------------------------ *)
\* entry of a call: arguments bound, status = E_OK
EnterCall(f, io, arg, no) ==
    /\ fn' = f
    /\ ioIndex' = io
    /\ ioArg' = arg
    /\ callNo' = no
    /\ nCalls' = nCalls + 1
    /\ callLog' = Append(callLog, << f, io, arg >>)
    /\ status' = E_OK
    /\ spin' = 0
    /\ tpc' = "Validate"

\* variant: the first index past the last IO is let through
Tca_Validate_OffByOne ==
    /\ tpc = "Validate"
    /\ IF ioIndex > numIo
         THEN /\ status' = E_NOT_OK
              /\ tpc' = "Return"
              /\ UNCHANGED txBufferIomux
         ELSE /\ txBufferIomux' = [txBufferIomux EXCEPT ![0] = RegBase(fn) + PortOf(ioIndex)]
              /\ tpc' = "Wait1_Ready"
              /\ UNCHANGED status
    /\ UNCHANGED << callVars, retVals, xcvrStatus, bufSetup, rxDoneIomux, rxBufferIomux,
                    seqResult, i2cTrace, printed, spin, rxDoneCall, devWrite >>
    /\ UNCHANGED adcAppVars

\* if (ioIndex >= numIo) status = E_NOT_OK; otherwise port and pin are computed and the
\* register address goes into txBufferIomux[0]
Tca_Validate ==
    /\ tpc = "Validate"
    /\ IF ioIndex >= numIo
         THEN /\ status' = E_NOT_OK
              /\ tpc' = "Return"
              /\ UNCHANGED txBufferIomux
         ELSE /\ txBufferIomux' = [txBufferIomux EXCEPT ![0] = RegBase(fn) + PortOf(ioIndex)]
              /\ tpc' = "Wait1_Ready"
              /\ UNCHANGED status
    /\ UNCHANGED << callVars, retVals, xcvrStatus, bufSetup, rxDoneIomux, rxBufferIomux,
                    seqResult, i2cTrace, printed, spin, rxDoneCall, devWrite >>
    /\ UNCHANGED adcAppVars

\* variant: the loop is left whatever the result is
Tca_WaitSeq_NoWait(at, q, next) ==
    /\ tpc = at
    /\ tpc' = next
    /\ spin' = 0
    /\ UNCHANGED << callVars, status, retVals, xcvrStatus, bufSetup, rxDoneIomux, txBufferIomux,
                    rxBufferIomux, seqResult, i2cTrace, printed, rxDoneCall, devWrite >>
    /\ UNCHANGED adcAppVars

\* while (CDD_I2C_SEQ_OK != Cdd_I2c_GetSequenceResult(q)) ; one test of the condition
Tca_WaitSeq(at, q, next) ==
    /\ tpc = at
    /\ IF seqResult[q] = "CDD_I2C_SEQ_OK"
         THEN tpc' = next /\ spin' = 0
         ELSE tpc' = tpc /\ spin' = 1 - spin
    /\ UNCHANGED << callVars, status, retVals, xcvrStatus, bufSetup, rxDoneIomux, txBufferIomux,
                    rxBufferIomux, seqResult, i2cTrace, printed, rxDoneCall, devWrite >>
    /\ UNCHANGED adcAppVars

\* Cdd_I2c_AsyncTransmit(q): the request is accepted and the sequence is pending from
\* the return of the call on
Tca_AsyncTransmit(at, q, next) ==
    /\ tpc = at
    /\ seqResult' = [seqResult EXCEPT ![q] = "CDD_I2C_SEQ_PENDING"]
    /\ i2cTrace' = Append(i2cTrace, [op |-> "start", q |-> q])
    /\ tpc' = next
    /\ UNCHANGED << callVars, status, retVals, xcvrStatus, bufSetup, rxDoneIomux, txBufferIomux,
                    rxBufferIomux, printed, spin, rxDoneCall, devWrite >>
    /\ UNCHANGED adcAppVars

\* while (TRUE != rxDoneIomux) { }: one test of the condition
Tca_WaitRxDone ==
    /\ tpc = "Wait_RxDone"
    /\ IF rxDoneIomux
         THEN tpc' = "Modify" /\ spin' = 0
         ELSE tpc' = tpc /\ spin' = 1 - spin
    /\ UNCHANGED << callVars, status, retVals, xcvrStatus, bufSetup, rxDoneIomux, txBufferIomux,
                    rxBufferIomux, seqResult, i2cTrace, printed, rxDoneCall, devWrite >>
    /\ UNCHANGED adcAppVars

\* the read-modify-write of the byte and the register address of the write
Tca_Modify ==
    /\ tpc = "Modify"
    /\ txBufferIomux' = [i \in 0 .. 1 |->
                           IF i = 1 THEN ModifiedByte(fn, ioArg, PortPinOf(ioIndex), rxBufferIomux[0])
                                    ELSE RegBase(fn) + PortOf(ioIndex)]
    /\ i2cTrace' = Append(i2cTrace, [op |-> "modify", q |-> 0])
    /\ tpc' = "Wait2_Ready"
    /\ UNCHANGED << callVars, status, retVals, xcvrStatus, bufSetup, rxDoneIomux,
                    rxBufferIomux, seqResult, printed, spin, rxDoneCall, devWrite >>
    /\ UNCHANGED adcAppVars

\* return (status)
Tca_Return ==
    /\ tpc = "Return"
    /\ retVals' = Append(retVals, status)
    /\ i2cTrace' = Append(i2cTrace, [op |-> "return", q |-> status])
    /\ tpc' = "Returned"
    /\ UNCHANGED << callVars, status, xcvrStatus, bufSetup, rxDoneIomux, txBufferIomux,
                    rxBufferIomux, seqResult, printed, spin, rxDoneCall, devWrite >>
    /\ UNCHANGED adcAppVars

\* the statements of one call, in the order of the source
TCA6424_Call ==
    \/ Tca_Validate
    \/ Tca_WaitSeq("Wait1_Ready", 1, "Start1")
    \/ Tca_AsyncTransmit("Start1", 1, "Wait1_Done")
    \/ Tca_WaitSeq("Wait1_Done", 1, "Wait0_Ready")
    \/ Tca_WaitSeq("Wait0_Ready", 0, "Start0")
    \/ Tca_AsyncTransmit("Start0", 0, "Wait0_Done")
    \/ Tca_WaitSeq("Wait0_Done", 0, "Wait_RxDone")
    \/ Tca_WaitRxDone
    \/ Tca_Modify
    \/ Tca_WaitSeq("Wait2_Ready", 2, "Start2")
    \/ Tca_AsyncTransmit("Start2", 2, "Wait2_Done")
    \/ Tca_WaitSeq("Wait2_Done", 2, "Return")
    \/ Tca_Return

(* ------------------------------------------------------------------ *)
(* The I2C driver and the bus: a pending sequence ends either with     *)
(* its completion callback or with its failure callback                *)
(* ------------------------------------------------------------------ *)
\* largest bit position of the single-bit register patterns of RegSamples
MaxSampleBit == 4

\* register contents read back in the runs of the whole set-up: all clear, all set,
\* one bit set, one bit clear
RegSamples ==
    {0, UINT8_MAX} \cup { Shl1(b) : b \in 0 .. MaxSampleBit }
                   \cup { UINT8_MAX - Shl1(b) : b \in 0 .. MaxSampleBit }

\* the error codes I2c_Sequence_Error_Report tells apart, with the line it prints
ErrorCodes ==
    { "CDD_I2C_E_HW_UNIT_BUSY", "CDD_I2C_E_CHANNEL_BUSY", "CDD_I2C_E_ARBITRATION_LOSS",
      "CDD_I2C_E_NACK", "CDD_I2C_E_RECEIVE_SHIFT_REGISTER_FULL", "CDD_I2C_E_PARAM_QUEUE_FULL" }

I2c_Sequence_Error_Report(Error_code) ==
    CASE Error_code = "CDD_I2C_E_HW_UNIT_BUSY" -> "Hardware unit busy"
      [] Error_code = "CDD_I2C_E_CHANNEL_BUSY" -> "Channels busy"
      [] Error_code = "CDD_I2C_E_ARBITRATION_LOSS" -> "Arbitration lost"
      [] Error_code = "CDD_I2C_E_NACK" -> "No Acknowledgement"
      [] Error_code = "CDD_I2C_E_RECEIVE_SHIFT_REGISTER_FULL" -> "Receive shift register full"
      [] Error_code = "CDD_I2C_E_PARAM_QUEUE_FULL" -> "Queue full"

\* first line of the failure callback of sequence q
FailLine(q) ==
    CASE q = 0 -> "Sequence failed while trying to read data from IOMUX"
      [] q = 1 -> "Sequence failed while trying to reset Iomux address pointer"
      [] q = 2 -> "Sequence failed while trying to write to Iomux"

\* result of a sequence that ended with Error_code
FailResult(Error_code) ==
    IF Error_code = "CDD_I2C_E_NACK" THEN "CDD_I2C_SEQ_NACK" ELSE "CDD_I2C_SEQ_FAILED"

PendingSeqs == { q \in 0 .. 2 : seqResult[q] = "CDD_I2C_SEQ_PENDING" }

\* sequence 1 done: the address pointer of the device is written, I2c_Iomux_Write_Callback_Ptr
I2c_PtrComplete ==
    /\ seqResult[1] = "CDD_I2C_SEQ_PENDING"
    /\ seqResult' = [seqResult EXCEPT ![1] = "CDD_I2C_SEQ_OK"]
    /\ i2cTrace' = Append(i2cTrace, [op |-> "done", q |-> 1])
    /\ printed' = Append(printed, "Iomux address reset SuccessFul")
    /\ UNCHANGED << tpc, callVars, status, retVals, xcvrStatus, bufSetup, rxDoneIomux,
                    txBufferIomux, rxBufferIomux, spin, rxDoneCall, devWrite >>
    /\ UNCHANGED adcAppVars

\* sequence 0 done: one byte of the addressed register is in rxBufferIomux[0],
\* I2c_Iomux_Read_Callback sets the flag
I2c_ReadComplete(vals) ==
    /\ seqResult[0] = "CDD_I2C_SEQ_PENDING"
    /\ \E v \in vals : rxBufferIomux' = [rxBufferIomux EXCEPT ![0] = v]
    /\ seqResult' = [seqResult EXCEPT ![0] = "CDD_I2C_SEQ_OK"]
    /\ i2cTrace' = Append(i2cTrace, [op |-> "done", q |-> 0])
    /\ rxDoneIomux' = TRUE
    /\ rxDoneCall' = IF rxDoneIomux THEN rxDoneCall ELSE nCalls
    /\ UNCHANGED << tpc, callVars, status, retVals, xcvrStatus, bufSetup, txBufferIomux,
                    printed, spin, devWrite >>
    /\ UNCHANGED adcAppVars

\* sequence 2 done: the two bytes of txBufferIomux went to the device, I2c_Iomux_Write_Callback
I2c_WriteComplete ==
    /\ seqResult[2] = "CDD_I2C_SEQ_PENDING"
    /\ seqResult' = [seqResult EXCEPT ![2] = "CDD_I2C_SEQ_OK"]
    /\ devWrite' = << txBufferIomux[0], txBufferIomux[1] >>
    /\ i2cTrace' = Append(i2cTrace, [op |-> "done", q |-> 2])
    /\ printed' = Append(printed, "Iomux write SuccessFul")
    /\ UNCHANGED << tpc, callVars, status, retVals, xcvrStatus, bufSetup, rxDoneIomux,
                    txBufferIomux, rxBufferIomux, spin, rxDoneCall >>
    /\ UNCHANGED adcAppVars

\* a pending sequence ends with an error: its result is a failure result and its
\* failure callback prints two lines
I2c_SeqFail ==
    \E q \in PendingSeqs, e \in ErrorCodes :
        /\ seqResult' = [seqResult EXCEPT ![q] = FailResult(e)]
        /\ i2cTrace' = Append(i2cTrace, [op |-> "fail", q |-> q])
        /\ printed' = printed \o << FailLine(q), I2c_Sequence_Error_Report(e) >>
        /\ UNCHANGED << tpc, callVars, status, retVals, xcvrStatus, bufSetup, rxDoneIomux,
                        txBufferIomux, rxBufferIomux, spin, rxDoneCall, devWrite >>
        /\ UNCHANGED adcAppVars

(* ------------------------------------------------------------------ *)
(* mcanEnableTransceiver, I2c_Buffer_Setup and TCA6424_Transceiver     *)
(* ------------------------------------------------------------------ *)
\* variant: mode before latch for each pin
XcvrCalls_ConfigFirst ==
    << << "config", IO_MUX_MCAN_SEL, TCA6424_MODE_OUTPUT >>,
       << "setOutput", IO_MUX_MCAN_SEL, TCA6424_IO_MUX_MCAN_SEL_PORT_LINE_STATE >>,
       << "config", IO_MUX_MCAN_STB, TCA6424_MODE_OUTPUT >>,
       << "setOutput", IO_MUX_MCAN_STB, TCA6424_IO_MUX_MCAN_STB_PORT_LINE_STATE >> >>

\* the four calls of TCA6424_Transceiver in the order of the source
XcvrCalls ==
    << << "setOutput", IO_MUX_MCAN_SEL, TCA6424_IO_MUX_MCAN_SEL_PORT_LINE_STATE >>,
       << "config", IO_MUX_MCAN_SEL, TCA6424_MODE_OUTPUT >>,
       << "setOutput", IO_MUX_MCAN_STB, TCA6424_IO_MUX_MCAN_STB_PORT_LINE_STATE >>,
       << "config", IO_MUX_MCAN_STB, TCA6424_MODE_OUTPUT >> >>

\* I2c_Buffer_Setup(): the three Cdd_I2c_SetupEB results are or-ed; the caller drops the value
Enable_BufferSetup ==
    /\ tpc = "Enable_Start"
    /\ bufSetup' \in {E_OK, E_NOT_OK}
    /\ tpc' = "Xcvr_Call"
    /\ UNCHANGED << callVars, status, retVals, xcvrStatus, rxDoneIomux, txBufferIomux,
                    rxBufferIomux, seqResult, i2cTrace, printed, spin, rxDoneCall, devWrite >>
    /\ UNCHANGED adcAppVars

\* the next call of TCA6424_Transceiver
Xcvr_Call ==
    /\ tpc = "Xcvr_Call"
    /\ LET c == XcvrCalls[callNo + 1] IN EnterCall(c[1], c[2], c[3], callNo + 1)
    /\ UNCHANGED << retVals, xcvrStatus, bufSetup, rxDoneIomux, txBufferIomux,
                    rxBufferIomux, seqResult, i2cTrace, printed, rxDoneCall, devWrite >>
    /\ UNCHANGED adcAppVars

\* status = ... for the first call, status += ... for the other three
Xcvr_Accumulate ==
    /\ tpc = "Returned"
    /\ callNo >= 1
    /\ xcvrStatus' = IF callNo = 1 THEN status ELSE xcvrStatus + status
    /\ tpc' = IF callNo < Len(XcvrCalls) THEN "Xcvr_Call" ELSE "Xcvr_Check"
    /\ UNCHANGED << callVars, status, retVals, bufSetup, rxDoneIomux, txBufferIomux,
                    rxBufferIomux, seqResult, i2cTrace, printed, spin, rxDoneCall, devWrite >>
    /\ UNCHANGED adcAppVars

\* if (status != E_OK) the failure line is printed; return status
Xcvr_Check ==
    /\ tpc = "Xcvr_Check"
    /\ printed' = IF xcvrStatus # E_OK THEN Append(printed, "IOMUX setup for CAN failed")
                                       ELSE printed
    /\ tpc' = "Enable_Check"
    /\ UNCHANGED << callVars, status, retVals, xcvrStatus, bufSetup, rxDoneIomux, txBufferIomux,
                    rxBufferIomux, seqResult, i2cTrace, spin, rxDoneCall, devWrite >>
    /\ UNCHANGED adcAppVars

\* if (status == E_OK) the success line is printed
Enable_Check ==
    /\ tpc = "Enable_Check"
    /\ printed' = IF xcvrStatus = E_OK THEN Append(printed, "IOMUX setup for CAN successful")
                                       ELSE printed
    /\ tpc' = "Enable_Done"
    /\ UNCHANGED << callVars, status, retVals, xcvrStatus, bufSetup, rxDoneIomux, txBufferIomux,
                    rxBufferIomux, seqResult, i2cTrace, spin, rxDoneCall, devWrite >>
    /\ UNCHANGED adcAppVars

\* one call of either function with any arguments
Tca_DirectCall ==
    /\ tpc = "Enable_Start"
    /\ \E f \in {"setOutput", "config"}, io \in IoIndexValues, arg \in {0, 1} :
          EnterCall(f, io, arg, 0)
    /\ UNCHANGED << retVals, xcvrStatus, bufSetup, rxDoneIomux, txBufferIomux,
                    rxBufferIomux, seqResult, i2cTrace, printed, rxDoneCall, devWrite >>
    /\ UNCHANGED adcAppVars

XcvrSoftware ==
    \/ Enable_BufferSetup
    \/ Xcvr_Call
    \/ TCA6424_Call
    \/ Xcvr_Accumulate
    \/ Xcvr_Check
    \/ Enable_Check

I2cHardware(vals) ==
    \/ I2c_PtrComplete
    \/ I2c_ReadComplete(vals)
    \/ I2c_WriteComplete

NextTransceiver ==
    \/ XcvrSoftware
    \/ I2cHardware(RegSamples)
    \/ I2c_SeqFail

\* mcanEnableTransceiver from start to end, sequences may fail
SpecTransceiver == Init /\ [][NextTransceiver]_vars

NextTcaCall ==
    \/ Tca_DirectCall
    \/ TCA6424_Call
    \/ I2cHardware(RegValues)
    \/ I2c_SeqFail

\* one call of TCA6424_setOutput or TCA6424_config, every argument, register value and
\* outcome of the sequences
SpecTcaCall == Init /\ [][NextTcaCall]_vars

\* the software thread runs, and a pending sequence ends one way or the other
SpecTransceiverFair ==
    /\ Init
    /\ [][NextTransceiver]_vars
    /\ WF_vars(XcvrSoftware)
    /\ WF_vars(I2cHardware(RegSamples) \/ I2c_SeqFail)

(* ------------------------------------------------------------------ *)
(* Properties of the IO expander set-up                                *)
(* ------------------------------------------------------------------ *)
\* order of the sequences of one register update
SeqOrder == << 1, 0, 2 >>

StartCount(tr) == Cardinality({ i \in 1 .. Len(tr) : tr[i].op = "start" })

\* sequences that go from not pending to pending in this step
StartedNow == { q \in 0 .. 2 : seqResult[q] # "CDD_I2C_SEQ_PENDING" /\ seqResult'[q] = "CDD_I2C_SEQ_PENDING" }

\* C33: a sequence is started only when its own result and the results of the other two
\* are CDD_I2C_SEQ_OK, the starts follow the order 1, 0, 2 within every register update,
\* and at most one sequence is pending at any time
C33_SequencesInOrder ==
    [][ /\ \A q \in StartedNow :
              /\ \A r \in 0 .. 2 : seqResult[r] = "CDD_I2C_SEQ_OK"
              /\ q = SeqOrder[(StartCount(i2cTrace) % 3) + 1]
        /\ Cardinality(StartedNow) <= 1
        /\ Cardinality(PendingSeqs') <= 1 ]_vars

C33_Witness ==
    /\ callNo = 2
    /\ tpc = "Wait2_Done"
    /\ seqResult[2] = "CDD_I2C_SEQ_PENDING"
    /\ StartCount(i2cTrace) = 6

\* C34: when a call computes the byte to write, the flag that ended its wait loop went
\* from FALSE to TRUE in this very call (rxDoneCall is the number of the call in which
\* rxDoneIomux last became TRUE), that is, by the callback of the read this call started
C34_FlagFromThisCall ==
    tpc = "Modify" => (rxDoneIomux /\ rxDoneCall = nCalls)

\* C35: a call with a valid ioIndex that has been entered returns
C35_CallReturns ==
    (tpc = "Validate" /\ ioIndex < numIo) ~> (tpc = "Returned")

\* the eight bits of a byte
ByteBits == 0 .. 7

\* b is r with bit p set (v = 1) or cleared (v = 0) and the other seven bits of r
OneBitChanged(r, b, p, v) ==
    /\ b \in 0 .. UINT8_MAX
    /\ (b \div (2 ^ p)) % 2 = v
    /\ \A k \in ByteBits \ {p} : (b \div (2 ^ k)) % 2 = (r \div (2 ^ k)) % 2

\* the bit value the arguments ask for: 1 for output HIGH and for mode INPUT
WantedBit ==
    IF fn = "setOutput" THEN (IF ioArg = TCA6424_OUT_STATE_HIGH THEN 1 ELSE 0)
                        ELSE (IF ioArg = TCA6424_MODE_INPUT THEN 1 ELSE 0)

\* base register named by the function: 0x04 output port 0, 0x0C configuration port 0
WantedBase == IF fn = "setOutput" THEN 4 ELSE 12

\* C36: once the byte is computed, and when the write has reached the device, the register
\* is base + ioIndex / 8 and the byte is the value read with exactly bit ioIndex mod 8
\* set or cleared
C36_OneBitReadModifyWrite ==
    /\ tpc \in {"Wait2_Ready", "Start2", "Wait2_Done"} =>
          /\ ioIndex < numIo
          /\ txBufferIomux[0] = WantedBase + (ioIndex \div 8)
          /\ OneBitChanged(rxBufferIomux[0], txBufferIomux[1], ioIndex % 8, WantedBit)
    /\ tpc \in {"Return", "Returned"} /\ status = E_OK =>
          /\ devWrite = << WantedBase + (ioIndex \div 8), txBufferIomux[1] >>
          /\ OneBitChanged(rxBufferIomux[0], devWrite[2], ioIndex % 8, WantedBit)

C36_Witness ==
    /\ tpc = "Returned"
    /\ fn = "config"
    /\ ioIndex = 23
    /\ ioArg = TCA6424_MODE_OUTPUT
    /\ rxBufferIomux[0] = UINT8_MAX
    /\ devWrite = << 14, 127 >>

\* C37: a call with ioIndex >= 24 starts no sequence, leaves the two buffers and the flag
\* as they were before the call (their initial values: it is the first call) and returns
\* E_NOT_OK; a call with ioIndex < 24 that returns, returns E_OK
C37_IndexValidation ==
    /\ (nCalls = 1 /\ ioIndex >= 24) =>
          /\ StartCount(i2cTrace) = 0
          /\ PendingSeqs = {}
          /\ txBufferIomux = [i \in 0 .. 1 |-> 0]
          /\ rxBufferIomux = [i \in 0 .. 1 |-> 0]
          /\ rxDoneIomux = FALSE
          /\ tpc \in {"Validate", "Return", "Returned"}
          /\ (tpc = "Returned" => retVals = << E_NOT_OK >>)
    /\ (nCalls >= 1 /\ ioIndex < 24 /\ tpc = "Returned") => retVals[Len(retVals)] = E_OK

C37_Witness ==
    /\ tpc = "Returned"
    /\ ioIndex = 24
    /\ retVals = << E_NOT_OK >>

\* a call with a valid index has returned E_OK after its three sequences
C37_WitnessValid ==
    /\ tpc = "Returned"
    /\ ioIndex = 23
    /\ retVals = << E_OK >>
    /\ StartCount(i2cTrace) = 3

\* positions in the call log of the calls of function f on pin io
CallIdx(f, io) == { i \in 1 .. Len(callLog) : callLog[i][1] = f /\ callLog[i][2] = io }

\* positions in the call log of all calls on pin io
PinIdx(io) == { i \in 1 .. Len(callLog) : callLog[i][2] = io }

\* C38: the mode of a pin is set only after its output latch has been written and that call
\* has returned, no call on MCAN_STB is made before both calls on MCAN_SEL have returned,
\* and each of the four calls is made once, whatever the calls before it returned
C38_TransceiverOrder ==
    /\ \A io \in {IO_MUX_MCAN_SEL, IO_MUX_MCAN_STB} :
          /\ Cardinality(CallIdx("setOutput", io)) <= 1
          /\ Cardinality(CallIdx("config", io)) <= 1
          /\ \A j \in CallIdx("config", io) :
                \E i \in CallIdx("setOutput", io) : i < j /\ Len(retVals) >= i
    /\ \A j \in PinIdx(IO_MUX_MCAN_STB) :
          /\ \E i \in CallIdx("setOutput", IO_MUX_MCAN_SEL) : i < j
          /\ \E i \in CallIdx("config", IO_MUX_MCAN_SEL) : i < j /\ Len(retVals) >= i
    /\ \A i \in 1 .. Len(callLog) : callLog[i][2] \in {IO_MUX_MCAN_SEL, IO_MUX_MCAN_STB}
    /\ tpc \in {"Xcvr_Check", "Enable_Check", "Enable_Done"} => Len(callLog) = 4

C38_Witness ==
    /\ tpc = "Enable_Done"
    /\ Len(callLog) = 4
    /\ callLog[1] = << "setOutput", 4, 0 >>
    /\ callLog[4] = << "config", 17, 1 >>

SuccessReported ==
    \E i \in 1 .. Len(printed) : printed[i] = "IOMUX setup for CAN successful"

\* C39: the success line is printed only if I2c_Buffer_Setup returned E_OK and each of the
\* four calls of TCA6424_Transceiver returned E_OK
C39_SuccessOnlyIfAllOk ==
    SuccessReported =>
        /\ bufSetup = E_OK
        /\ Len(retVals) = 4
        /\ \A i \in 1 .. 4 : retVals[i] = E_OK

====
